---- MODULE Spec2Model ----
(***************************************************************************)
(* Xiangqi engine (services/engine.ts): the 0x88-style board, Zobrist      *)
(* hashing, pseudo-legal move generation, make/undo, check detection and   *)
(* the best-move query of the two engine classes (Engine / EngineWorld).   *)
(***************************************************************************)
EXTENDS Integers, Sequences, FiniteSets, TLC

(* ------------------------------------------------------------------ *)
(* Board representation constants (engine.ts 5-21, 599-614)            *)
(* ------------------------------------------------------------------ *)
BOARD_SIZE == 256
RED == 8
BLACK == 16
P_KING == 1
P_ADVISOR == 2
P_ELEPHANT == 3
P_HORSE == 4
P_ROOK == 5
P_CANNON == 6
P_PAWN == 7

\* The value a typed array yields for an index outside 0..255.
Undefined == -1

Slots == 0 .. (BOARD_SIZE - 1)

\* (r << 4) + c
Sq(r, c) == r * 16 + c
RowOf(sq) == sq \div 16
ColOf(sq) == sq % 16

\* (sq & 0x0F) < 9 && (sq >> 4) < 10
ValidSquare(sq) == ColOf(sq) < 9 /\ RowOf(sq) < 10

\* p & COLOR_MASK and p & TYPE_MASK; undefined & x is 0 in JavaScript.
ColorOf(p) == IF p = Undefined THEN 0 ELSE (p \div 8) * 8
TypeOf(p) == IF p = Undefined THEN 0 ELSE p % 8

Opp(side) == IF side = RED THEN BLACK ELSE RED

\* this.board[i]: a read outside the Int8Array is undefined.
Read(b, i) == IF i \in Slots THEN b[i] ELSE Undefined

\* this.board[i] = v: a write outside the Int8Array is ignored and a stored
\* undefined becomes 0.
Store(b, i, v) ==
    IF i \in Slots THEN [b EXCEPT ![i] = IF v = Undefined THEN 0 ELSE v] ELSE b

Abs(x) == IF x < 0 THEN -x ELSE x

(* ------------------------------------------------------------------ *)
(* Move encoding: (from << 8) | to on 32-bit integers                  *)
(* ------------------------------------------------------------------ *)
RECURSIVE BitOr(_, _)
BitOr(a, b) ==
    IF a = 0 THEN b
    ELSE IF b = 0 THEN a
    ELSE (IF a % 2 = 1 \/ b % 2 = 1 THEN 1 ELSE 0) + 2 * BitOr(a \div 2, b \div 2)

\* For -256 <= to < 0 every bit from 8 up is set in `to`, so the OR is `to`.
EncodeMove(from, to) ==
    IF to < 0 THEN to
    ELSE BitOr(from, to \div 256) * 256 + (to % 256)

\* move >> 8 (arithmetic shift) and move & 0xFF
MoveFrom(move) == move \div 256
MoveTo(move) == move % 256

(* ------------------------------------------------------------------ *)
(* Zobrist keys: 32-bit values, held as the set of their one-bits, so   *)
(* that XOR is the symmetric difference.                                *)
(* ------------------------------------------------------------------ *)
HashBits == 0 .. 31

Xor(x, y) == (x \ y) \cup (y \ x)

\* The number of key tables that Init and reset() draw from.
NumSeeds == 2

\* One more key table, a draw in which the 24 keys of the square (3,8) equal
\* those of the square (3,4): boards that differ by a piece standing on the
\* one square or the other have the same hash.
CollidingSeed == NumSeeds + 1
TwinSquare == 3 * 16 + 8
TwinOf == 3 * 16 + 4

\* Bit k of ZOBRIST_TABLE[sq][p] in the key table drawn as number `seed`:
\* Math.random() gives each table entry an arbitrary 32-bit value, and the
\* tables of the model are fixed, well-mixed ones.
KeyBit(seed, sq, p, k) ==
    LET s == IF seed = CollidingSeed /\ sq = TwinSquare THEN TwinOf ELSE sq
        a == ((s * 24 + p + 1) * (2 * k + 3) + 7 * seed) % 8191
    IN ((((a * a) % 8191) * (a + k + 1) + seed * (k + 7)) % 8191) % 2 = 1

\* ZOBRIST_TABLE[sq][p] of the key table drawn as number `seed`.
ZobristKey(seed, sq, p) == { k \in HashBits : KeyBit(seed, sq, p, k) }

\* SIDE_KEY of the key table drawn as number `seed`.
SideKey(seed) == { k \in HashBits : KeyBit(seed, BOARD_SIZE, 0, k) }

\* h ^= ZOBRIST_TABLE[sq][p], guarded by `if (p)`.
HashPiece(seed, h, sq, p) ==
    IF p = Undefined \/ p = 0 THEN h ELSE Xor(h, ZobristKey(seed, sq, p))

\* The XOR of ZOBRIST_TABLE[i][board[i]] over the occupied valid squares: bit k
\* is set iff an odd number of those keys have it set.
HashScan(seed, b) ==
    LET occupied == { i \in Slots : ValidSquare(i) /\ b[i] # 0 } IN
    { k \in HashBits :
        Cardinality({ i \in occupied : KeyBit(seed, i, b[i], k) }) % 2 = 1 }

\* EngineWorld.recomputeHash / Engine.getHash
recomputeHash(seed, b, t) ==
    IF t = BLACK THEN Xor(HashScan(seed, b), SideKey(seed)) ELSE HashScan(seed, b)

(* ------------------------------------------------------------------ *)
(* Move generation (Engine.generateMoves / EngineWorld.generateMoves)  *)
(* ------------------------------------------------------------------ *)
RECURSIVE Flat(_)
Flat(ss) == IF ss = <<>> THEN <<>> ELSE Head(ss) \o Flat(Tail(ss))

SeqToSet(s) == { s[i] : i \in 1 .. Len(s) }

OrthoDirs == << <<0, 1>>, <<0, -1>>, <<1, 0>>, <<-1, 0>> >>
DiagDirs == << <<1, 1>>, <<1, -1>>, <<-1, 1>>, <<-1, -1>> >>
ElephantDirs == << <<2, 2>>, <<2, -2>>, <<-2, 2>>, <<-2, -2>> >>
HorseDirs == << <<-2, -1>>, <<-2, 1>>, <<2, -1>>, <<2, 1>>,
                <<-1, -2>>, <<-1, 2>>, <<1, -2>>, <<1, 2>> >>

OnBoard(r, c) == r >= 0 /\ r <= 9 /\ c >= 0 /\ c <= 8

\* addMove: a quiet move unless captureOnly, a capture unless the target has
\* the mover's colour.
addMove(b, t, from, to, captureOnly) ==
    LET target == Read(b, to) IN
    IF target = 0
    THEN IF captureOnly THEN <<>> ELSE << EncodeMove(from, to) >>
    ELSE IF ColorOf(target) # t THEN << EncodeMove(from, to) >> ELSE <<>>

\* The palace test of the king and advisor cases.
InPalaceTest(t, nr, nc) ==
    nc >= 3 /\ nc <= 5 /\ ((t = RED /\ nr >= 7) \/ (t = BLACK /\ nr <= 2))

KingMoves(b, t, r, c, captureOnly) ==
    Flat([i \in 1 .. 4 |->
        LET nr == r + OrthoDirs[i][1]
            nc == c + OrthoDirs[i][2]
        IN IF InPalaceTest(t, nr, nc)
           THEN addMove(b, t, Sq(r, c), Sq(nr, nc), captureOnly)
           ELSE <<>>])

AdvisorMoves(b, t, r, c, captureOnly) ==
    Flat([i \in 1 .. 4 |->
        LET nr == r + DiagDirs[i][1]
            nc == c + DiagDirs[i][2]
        IN IF InPalaceTest(t, nr, nc)
           THEN addMove(b, t, Sq(r, c), Sq(nr, nc), captureOnly)
           ELSE <<>>])

ElephantMoves(b, t, r, c, captureOnly) ==
    Flat([i \in 1 .. 4 |->
        LET dr == ElephantDirs[i][1]
            dc == ElephantDirs[i][2]
            nr == r + dr
            nc == c + dc
        IN IF OnBoard(nr, nc)
              /\ ~(t = RED /\ nr < 5)
              /\ ~(t = BLACK /\ nr > 4)
              /\ Read(b, Sq(r + dr \div 2, c + dc \div 2)) = 0
           THEN addMove(b, t, Sq(r, c), Sq(nr, nc), captureOnly)
           ELSE <<>>])

HorseMoves(b, t, r, c, captureOnly) ==
    Flat([i \in 1 .. 8 |->
        LET dr == HorseDirs[i][1]
            dc == HorseDirs[i][2]
            nr == r + dr
            nc == c + dc
            legR == r + (IF Abs(dr) = 2 THEN dr \div 2 ELSE 0)
            legC == c + (IF Abs(dc) = 2 THEN dc \div 2 ELSE 0)
        IN IF OnBoard(nr, nc) /\ Read(b, Sq(legR, legC)) = 0
           THEN addMove(b, t, Sq(r, c), Sq(nr, nc), captureOnly)
           ELSE <<>>])

\* One direction of the rook loop, from distance dist on.
RECURSIVE RookRay(_, _, _, _, _, _, _, _)
RookRay(b, t, r, c, dr, dc, dist, captureOnly) ==
    LET nr == r + dr * dist
        nc == c + dc * dist
    IN IF dist >= 10 \/ ~OnBoard(nr, nc) THEN <<>>
       ELSE LET target == Read(b, Sq(nr, nc)) IN
            IF target = 0
            THEN (IF captureOnly THEN <<>> ELSE << EncodeMove(Sq(r, c), Sq(nr, nc)) >>)
                 \o RookRay(b, t, r, c, dr, dc, dist + 1, captureOnly)
            ELSE IF ColorOf(target) = Opp(t)
                 THEN << EncodeMove(Sq(r, c), Sq(nr, nc)) >>
                 ELSE <<>>

RookMoves(b, t, r, c, captureOnly) ==
    Flat([i \in 1 .. 4 |->
        RookRay(b, t, r, c, OrthoDirs[i][1], OrthoDirs[i][2], 1, captureOnly)])

\* One direction of the cannon loop, from distance dist on.
RECURSIVE CannonRay(_, _, _, _, _, _, _, _, _)
CannonRay(b, t, r, c, dr, dc, dist, jump, captureOnly) ==
    LET nr == r + dr * dist
        nc == c + dc * dist
    IN IF dist >= 10 \/ ~OnBoard(nr, nc) THEN <<>>
       ELSE LET target == Read(b, Sq(nr, nc)) IN
            IF ~jump
            THEN IF target = 0
                 THEN (IF captureOnly THEN <<>>
                       ELSE << EncodeMove(Sq(r, c), Sq(nr, nc)) >>)
                      \o CannonRay(b, t, r, c, dr, dc, dist + 1, FALSE, captureOnly)
                 ELSE CannonRay(b, t, r, c, dr, dc, dist + 1, TRUE, captureOnly)
            ELSE IF target # 0
                 THEN IF ColorOf(target) = Opp(t)
                      THEN << EncodeMove(Sq(r, c), Sq(nr, nc)) >>
                      ELSE <<>>
                 ELSE CannonRay(b, t, r, c, dr, dc, dist + 1, TRUE, captureOnly)

\* A cannon that moves and captures as a rook does.
CannonMovesLikeRook(b, t, r, c, captureOnly) == RookMoves(b, t, r, c, captureOnly)

CannonMoves(b, t, r, c, captureOnly) ==
    Flat([i \in 1 .. 4 |->
        CannonRay(b, t, r, c, OrthoDirs[i][1], OrthoDirs[i][2], 1, FALSE, captureOnly)])

PawnMoves(b, t, r, c, captureOnly) ==
    LET forward == IF t = RED THEN -1 ELSE 1
        crossed == IF t = RED THEN r <= 4 ELSE r >= 5
        fr == r + forward
    IN (IF fr >= 0 /\ fr <= 9
        THEN addMove(b, t, Sq(r, c), Sq(fr, c), captureOnly) ELSE <<>>)
       \o (IF crossed /\ c > 0
           THEN addMove(b, t, Sq(r, c), Sq(r, c - 1), captureOnly) ELSE <<>>)
       \o (IF crossed /\ c < 8
           THEN addMove(b, t, Sq(r, c), Sq(r, c + 1), captureOnly) ELSE <<>>)

\* The switch on the piece type for the piece of the side to move on (r, c).
PieceMoves(b, t, r, c, captureOnly) ==
    LET p == b[Sq(r, c)]
        type == TypeOf(p)
    IN IF ColorOf(p) # t THEN <<>>
       ELSE IF type = P_KING THEN KingMoves(b, t, r, c, captureOnly)
       ELSE IF type = P_ADVISOR THEN AdvisorMoves(b, t, r, c, captureOnly)
       ELSE IF type = P_ELEPHANT THEN ElephantMoves(b, t, r, c, captureOnly)
       ELSE IF type = P_HORSE THEN HorseMoves(b, t, r, c, captureOnly)
       ELSE IF type = P_ROOK THEN RookMoves(b, t, r, c, captureOnly)
       ELSE IF type = P_CANNON THEN CannonMoves(b, t, r, c, captureOnly)
       ELSE IF type = P_PAWN THEN PawnMoves(b, t, r, c, captureOnly)
       ELSE <<>>

\* generateMoves(captureOnly): rows 0..9, columns 0..8, in that order.
generateMoves(b, t, captureOnly) ==
    Flat([r \in 1 .. 10 |->
        Flat([c \in 1 .. 9 |-> PieceMoves(b, t, r - 1, c - 1, captureOnly)])])

(* ------------------------------------------------------------------ *)
(* Check detection (Engine.isKingInCheck / EngineWorld.isKingInCheck)  *)
(* ------------------------------------------------------------------ *)
\* The flying-general scan: kings on one file with nothing between them.
FlyingGeneral(b, kingPos, otherKing) ==
    LET kingR == RowOf(kingPos)
        kingC == ColOf(kingPos)
        oR == RowOf(otherKing)
        minR == IF kingR < oR THEN kingR ELSE oR
        maxR == IF kingR < oR THEN oR ELSE kingR
    IN ColOf(otherKing) = kingC
       /\ \A r \in (minR + 1) .. (maxR - 1) : Read(b, Sq(r, kingC)) = 0

\* An enemy pawn on (r, c) met first on a ray from the king.
PawnChecks(enemy, kingR, kingC, r, c) ==
    LET pDr == r - kingR
        crossed == IF enemy = RED THEN r <= 4 ELSE r >= 5
    IN Abs(pDr) + Abs(c - kingC) = 1
       /\ IF ~crossed
          THEN (enemy = RED /\ pDr = 1) \/ (enemy = BLACK /\ pDr = -1)
          ELSE (enemy = RED /\ pDr >= 0) \/ (enemy = BLACK /\ pDr <= 0)

\* One orthogonal ray from the king, from distance dist on.
RECURSIVE CheckRay(_, _, _, _, _, _, _, _)
CheckRay(b, enemy, kingR, kingC, dr, dc, dist, jump) ==
    LET r == kingR + dr * dist
        c == kingC + dc * dist
    IN IF dist >= 10 \/ ~OnBoard(r, c) THEN FALSE
       ELSE LET p == Read(b, Sq(r, c))
                type == TypeOf(p)
            IN IF p = 0 THEN CheckRay(b, enemy, kingR, kingC, dr, dc, dist + 1, jump)
               ELSE IF ColorOf(p) = enemy
                       /\ (IF ~jump /\ type \in {P_ROOK, P_KING, P_PAWN}
                           THEN (type = P_PAWN /\ PawnChecks(enemy, kingR, kingC, r, c))
                                \/ type = P_ROOK
                           ELSE jump /\ type = P_CANNON)
                    THEN TRUE
                    ELSE IF ~jump
                         THEN CheckRay(b, enemy, kingR, kingC, dr, dc, dist + 1, TRUE)
                         ELSE FALSE

\* HorseChecks without the leg test.
HorseChecksNoLeg(b, enemy, kingR, kingC, dr, dc) ==
    LET r == kingR + dr
        c == kingC + dc
        p == Read(b, Sq(r, c))
    IN OnBoard(r, c) /\ p # 0 /\ ColorOf(p) = enemy /\ TypeOf(p) = P_HORSE

\* An enemy horse on a knight offset from the king whose leg is free.
HorseChecks(b, enemy, kingR, kingC, dr, dc) ==
    LET r == kingR + dr
        c == kingC + dc
        p == Read(b, Sq(r, c))
        legR == IF Abs(dr) = 2 THEN (r + kingR) \div 2 ELSE r
        legC == IF Abs(dc) = 2 THEN (c + kingC) \div 2 ELSE c
    IN OnBoard(r, c) /\ p # 0 /\ ColorOf(p) = enemy /\ TypeOf(p) = P_HORSE
       /\ Read(b, Sq(legR, legC)) = 0

isKingInCheck(b, redKingPos, blackKingPos, side) ==
    LET kingPos == IF side = RED THEN redKingPos ELSE blackKingPos
        otherKing == IF side = RED THEN blackKingPos ELSE redKingPos
        kingR == RowOf(kingPos)
        kingC == ColOf(kingPos)
        enemy == Opp(side)
    IN \/ FlyingGeneral(b, kingPos, otherKing)
       \/ \E i \in 1 .. 4 :
            CheckRay(b, enemy, kingR, kingC, OrthoDirs[i][1], OrthoDirs[i][2], 1, FALSE)
       \/ \E i \in 1 .. 8 :
            HorseChecks(b, enemy, kingR, kingC, HorseDirs[i][1], HorseDirs[i][2])

(* ------------------------------------------------------------------ *)
(* Incremental state: makeMove / undoMove / switchSide                 *)
(* A position is the record of the engine fields board, turn,          *)
(* redKingPos, blackKingPos and (EngineWorld) currentHash.             *)
(* ------------------------------------------------------------------ *)
switchSide(seed, P) ==
    [P EXCEPT !.turn = Opp(P.turn),
              !.currentHash = Xor(P.currentHash, SideKey(seed))]

\* TrackKing without the colour test.
TrackKingAsRed(P, piece, sq) ==
    IF TypeOf(piece) = P_KING THEN [P EXCEPT !.redKingPos = sq] ELSE P

\* The king-square update of makeMove and undoMove.
TrackKing(P, piece, sq) ==
    IF TypeOf(piece) = P_KING
    THEN IF ColorOf(piece) = RED
         THEN [P EXCEPT !.redKingPos = sq]
         ELSE [P EXCEPT !.blackKingPos = sq]
    ELSE P

\* makeMove(move): the position after the move and the captured piece code.
makeMove(seed, P, move) ==
    LET from == MoveFrom(move)
        to == MoveTo(move)
        captured == Read(P.board, to)
        piece == Read(P.board, from)
        h1 == HashPiece(seed, P.currentHash, from, piece)
        h2 == HashPiece(seed, h1, to, captured)
        b1 == Store(Store(P.board, to, piece), from, 0)
        h3 == HashPiece(seed, h2, to, piece)
        P1 == TrackKing([P EXCEPT !.board = b1, !.currentHash = h3], piece, to)
    IN [pos |-> switchSide(seed, P1), captured |-> captured]

\* undoMove that leaves the destination square empty.
undoMoveDropsCapture(seed, P, move, captured) ==
    LET from == MoveFrom(move)
        to == MoveTo(move)
        piece == Read(P.board, to)
        P0 == switchSide(seed, P)
        h1 == HashPiece(seed, P0.currentHash, to, piece)
        h2 == HashPiece(seed, h1, to, captured)
        h3 == HashPiece(seed, h2, from, piece)
        b1 == Store(Store(P0.board, from, piece), to, 0)
    IN TrackKing([P0 EXCEPT !.board = b1, !.currentHash = h3], piece, from)

\* undoMove(move, captured)
undoMove(seed, P, move, captured) ==
    LET from == MoveFrom(move)
        to == MoveTo(move)
        piece == Read(P.board, to)
        P0 == switchSide(seed, P)
        h1 == HashPiece(seed, P0.currentHash, to, piece)
        h2 == HashPiece(seed, h1, to, captured)
        h3 == HashPiece(seed, h2, from, piece)
        b1 == Store(Store(P0.board, from, piece), to, captured)
    IN TrackKing([P0 EXCEPT !.board = b1, !.currentHash = h3], piece, from)

(* ------------------------------------------------------------------ *)
(* Evaluation and move ordering (EngineWorld)                          *)
(* ------------------------------------------------------------------ *)
MAX_PLY == 64

\* The value that stands for -Infinity: below every score.
NegInfinity == -1000000

\* PIECE_VALUE[type]
PIECE_VALUE(type) ==
    IF type = 0 THEN 0 ELSE << 10000, 220, 220, 420, 950, 450, 100 >>[type]

crossedRiver(r, isRed) == IF isRed THEN r <= 4 ELSE r >= 5

\* The value evaluate() gives the piece p on square i.
PieceScore(p, i) ==
    LET type == TypeOf(p)
        isRed == ColorOf(p) = RED
        r == RowOf(i)
        c == ColOf(i)
        base == PIECE_VALUE(type)
        crossed == crossedRiver(r, isRed)
        mid == c >= 3 /\ c <= 5
    IN CASE type = P_PAWN ->
              base + (IF isRed THEN 9 - r ELSE r) * 2
                   + (IF crossed THEN 30 + (IF mid THEN 20 ELSE 0) ELSE 0)
         [] type = P_HORSE ->
              base + (IF c = 4 THEN 15 ELSE 0) + (IF crossed THEN 30 ELSE 0)
         [] type = P_CANNON ->
              base + (IF c = 4 THEN 25 ELSE 0) + (IF crossed THEN 15 ELSE 0)
         [] type = P_ROOK ->
              base + (IF crossed THEN 20 ELSE 0) + (IF mid THEN 10 ELSE 0)
         [] type = P_KING ->
              IF (isRed /\ r >= 8) \/ (~isRed /\ r <= 1) THEN base + 10 ELSE base - 20
         [] OTHER -> base

RECURSIVE SumOver(_, _, _)
SumOver(b, sqs, acc) ==
    IF sqs = {} THEN acc
    ELSE LET i == CHOOSE x \in sqs : TRUE
             v == PieceScore(b[i], i)
         IN SumOver(b, sqs \ {i}, acc + (IF ColorOf(b[i]) = RED THEN v ELSE -v))

\* getHash() & 0x1F
HashLow(h) ==
    (IF 0 \in h THEN 1 ELSE 0) + (IF 1 \in h THEN 2 ELSE 0) + (IF 2 \in h THEN 4 ELSE 0)
    + (IF 3 \in h THEN 8 ELSE 0) + (IF 4 \in h THEN 16 ELSE 0)

\* evaluate(): material and position from Red's side plus the hash noise, seen
\* from the side to move.
evaluate(P) ==
    LET score == SumOver(P.board, { i \in Slots : ValidSquare(i) /\ P.board[i] # 0 }, 0)
                 + HashLow(P.currentHash) - 16
    IN IF P.turn = RED THEN score ELSE -score

mvvLva(victim, attacker) ==
    PIECE_VALUE(TypeOf(victim)) * 16 - PIECE_VALUE(TypeOf(attacker))

\* historyTable[move]: an Int32Array(65536), undefined outside it.
HistoryGet(hist, move) ==
    IF move \in DOMAIN hist THEN hist[move] ELSE 0

\* The ordering score orderMoves gives a move; a move outside the history
\* table adds undefined, and the NaN is stored in the Int32Array as 0.
MoveScore(b, move, ttEntry, ks, hist) ==
    LET tt0 == IF ttEntry.present /\ ttEntry.move = move THEN 1000000 ELSE 0
        captured == Read(b, MoveTo(move))
    IN IF captured # 0
       THEN tt0 + 500000 + mvvLva(captured, Read(b, MoveFrom(move)))
       ELSE IF move \in 0 .. (BOARD_SIZE * BOARD_SIZE - 1)
            THEN tt0 + (IF ks[1] = move THEN 400000 ELSE IF ks[2] = move THEN 300000 ELSE 0)
                     + HistoryGet(hist, move)
            ELSE 0

Swap(s, i, j) == [s EXCEPT ![i] = s[j], ![j] = s[i]]

\* The selection sort of orderMoves, from position i on: the first move with
\* the highest score comes to position i.
RECURSIVE SelectionSort(_, _, _)
SelectionSort(ms, sc, i) ==
    IF i >= Len(ms) THEN ms
    ELSE LET best == CHOOSE j \in i .. Len(ms) :
                        /\ \A l \in i .. Len(ms) : sc[l] <= sc[j]
                        /\ \A l \in i .. (j - 1) : sc[l] < sc[j]
         IN SelectionSort(Swap(ms, i, best), Swap(sc, i, best), i + 1)

orderMoves(b, moves, ttEntry, ks, hist) ==
    SelectionSort(moves, [n \in 1 .. Len(moves) |-> MoveScore(b, moves[n], ttEntry, ks, hist)], 1)

\* The key of the quiescence sort: victim type minus attacker type.
CaptureGain(b, move) ==
    TypeOf(Read(b, MoveTo(move))) - TypeOf(Read(b, MoveFrom(move)))

\* moves.sort((a, b) => vB - vA): a stable sort, highest key first.
RECURSIVE StableSortDesc(_, _, _)
StableSortDesc(b, ms, rest) ==
    IF rest = {} THEN << >>
    ELSE LET j == CHOOSE x \in rest : \A l \in rest :
                     \/ CaptureGain(b, ms[l]) < CaptureGain(b, ms[x])
                     \/ (CaptureGain(b, ms[l]) = CaptureGain(b, ms[x]) /\ x <= l)
         IN << ms[j] >> \o StableSortDesc(b, ms, rest \ {j})

sortCaptures(b, moves) == StableSortDesc(b, moves, 1 .. Len(moves))

\* The transposition table: at most one entry per hash.
NoEntry ==
    [present |-> FALSE, hash |-> {}, depth |-> 0, score |-> 0, type |-> 0, move |-> 0]

ttGet(t, h) ==
    IF \E e \in t : e.hash = h THEN CHOOSE e \in t : e.hash = h ELSE NoEntry

ttSet(t, h, depth, score, type, move) ==
    { e \in t : e.hash # h }
        \cup { [present |-> TRUE, hash |-> h, depth |-> depth, score |-> score,
                type |-> type, move |-> move] }

(* ------------------------------------------------------------------ *)
(* Evaluation and move ordering (Engine, behind getBestMove)           *)
(* ------------------------------------------------------------------ *)
\* M[type] of Engine.evaluate
PieceValueEngine(type) ==
    IF type = 0 THEN 0 ELSE << 10000, 200, 200, 450, 900, 450, 100 >>[type]

\* The value Engine.evaluate gives the piece p on square i.
PieceScoreEngine(p, i) ==
    LET type == TypeOf(p)
        isRed == ColorOf(p) = RED
        r == RowOf(i)
        c == ColOf(i)
        base == PieceValueEngine(type)
        crossed == IF isRed THEN r <= 4 ELSE r >= 5
    IN CASE type = P_PAWN ->
              IF crossed
              THEN base + 20 - (IF (isRed /\ r <= 1) \/ (~isRed /\ r >= 8) THEN 10 ELSE 0)
              ELSE base + (IF c = 4 THEN 10 ELSE 0)
         [] type = P_HORSE ->
              base + (IF c = 4 THEN 10 ELSE 0) + (IF crossedRiver(r, isRed) THEN 20 ELSE 0)
         [] type = P_CANNON ->
              base + (IF c = 4 THEN 20 ELSE 0)
         [] OTHER -> base

RECURSIVE SumOverEngine(_, _, _)
SumOverEngine(b, sqs, acc) ==
    IF sqs = {} THEN acc
    ELSE LET i == CHOOSE x \in sqs : TRUE
             v == PieceScoreEngine(b[i], i)
         IN SumOverEngine(b, sqs \ {i}, acc + (IF ColorOf(b[i]) = RED THEN v ELSE -v))

\* Engine.evaluate(); getHash() of Engine scans the board.
evaluateEngine(seed, P) ==
    LET score == SumOverEngine(P.board, { i \in Slots : ValidSquare(i) /\ P.board[i] # 0 }, 0)
                 + HashLow(recomputeHash(seed, P.board, P.turn)) - 16
    IN IF P.turn = RED THEN score ELSE -score

\* The key of the sort in Engine.search: 1000 for a capture plus the history
\* count.
SortKeyEngine(b, move, hist) ==
    (IF Read(b, MoveTo(move)) # 0 THEN 1000 ELSE 0) + HistoryGet(hist, move)

\* In the sort of Engine.search the move at position x goes before the one at
\* position l: the move of the table entry first, then the higher key, then
\* the earlier position (the sort is stable).
GoesBeforeEngine(b, ms, ttEntry, hist, x, l) ==
    LET isTT(m) == ttEntry.present /\ ttEntry.move = m
    IN IF isTT(ms[x]) THEN isTT(ms[l]) => x <= l
       ELSE IF isTT(ms[l]) THEN FALSE
       ELSE \/ SortKeyEngine(b, ms[x], hist) > SortKeyEngine(b, ms[l], hist)
            \/ (SortKeyEngine(b, ms[x], hist) = SortKeyEngine(b, ms[l], hist) /\ x <= l)

RECURSIVE SortEngine(_, _, _, _, _)
SortEngine(b, ms, ttEntry, hist, rest) ==
    IF rest = {} THEN << >>
    ELSE LET j == CHOOSE x \in rest :
                     \A l \in rest : GoesBeforeEngine(b, ms, ttEntry, hist, x, l)
         IN << ms[j] >> \o SortEngine(b, ms, ttEntry, hist, rest \ {j})

\* moves.sort(...) of Engine.search
sortMovesEngine(b, moves, ttEntry, hist) ==
    SortEngine(b, moves, ttEntry, hist, 1 .. Len(moves))

(* ------------------------------------------------------------------ *)
(* loadBoard: the caller's 10 x 9 table of pieces                      *)
(* ------------------------------------------------------------------ *)
\* The piece code loadBoard stores for a table entry <<side, type>>.
PieceCode(side, type) == side + type

EmptyBoard == [i \in Slots |-> 0]

\* The table is given as the set of its entries <<sq, code>>, one per
\* occupied square.
BoardOfTable(table) ==
    [i \in Slots |-> IF \E x \in table : x[1] = i
                     THEN (CHOOSE x \in table : x[1] = i)[2]
                     ELSE 0]

\* The last king of a colour met by the row-major scan (0 when there is none).
KingSquare(table, color) ==
    LET ks == { x[1] : x \in { y \in table : y[2] = color + P_KING } }
    IN IF ks = {} THEN 0 ELSE CHOOSE k \in ks : \A j \in ks : j <= k

loadBoard(seed, table, turnSide) ==
    LET b == BoardOfTable(table) IN
    [board |-> b,
     turn |-> turnSide,
     redKingPos |-> KingSquare(table, RED),
     blackKingPos |-> KingSquare(table, BLACK),
     currentHash |-> recomputeHash(seed, b, turnSide)]

\* Engine.loadBoard on an engine in position P0: a king position is written
\* only when the table has that king, and no hash is kept.
loadBoardEngine(P0, table, turnSide) ==
    LET hasKing(color) == \E x \in table : x[2] = color + P_KING IN
    [board |-> BoardOfTable(table),
     turn |-> turnSide,
     redKingPos |-> IF hasKing(RED) THEN KingSquare(table, RED) ELSE P0.redKingPos,
     blackKingPos |-> IF hasKing(BLACK) THEN KingSquare(table, BLACK) ELSE P0.blackKingPos,
     currentHash |-> P0.currentHash]

(* ------------------------------------------------------------------ *)
(* Boards handed to loadBoard                                          *)
(* Every piece stands on a square its movement rule can reach.          *)
(* ------------------------------------------------------------------ *)
Mirror(sq) == Sq(9 - RowOf(sq), ColOf(sq))

AllSquares == { Sq(r, c) : r \in 0 .. 9, c \in 0 .. 8 }
RedPalace == { Sq(r, c) : r \in 7 .. 9, c \in 3 .. 5 }
RedAdvisorSquares == { Sq(9, 3), Sq(9, 5), Sq(8, 4), Sq(7, 3), Sq(7, 5) }
RedElephantSquares ==
    { Sq(9, 2), Sq(9, 6), Sq(7, 0), Sq(7, 4), Sq(7, 8), Sq(5, 2), Sq(5, 6) }
RedPawnSquares ==
    { Sq(r, c) : r \in 5 .. 6, c \in {0, 2, 4, 6, 8} } \cup { Sq(r, c) : r \in 0 .. 4, c \in 0 .. 8 }

RedHome(type) ==
    IF type = P_KING THEN RedPalace
    ELSE IF type = P_ADVISOR THEN RedAdvisorSquares
    ELSE IF type = P_ELEPHANT THEN RedElephantSquares
    ELSE IF type = P_PAWN THEN RedPawnSquares
    ELSE AllSquares

\* The squares a piece code may stand on.
Reachable(code) ==
    IF ColorOf(code) = RED THEN RedHome(TypeOf(code))
    ELSE { Mirror(sq) : sq \in RedHome(TypeOf(code)) }

NonKingCodes == { c + ty : c \in {RED, BLACK}, ty \in 2 .. 7 }

\* Every entry <<sq, code>> of a non-king piece on one of its squares.
AllPlacements == UNION { { <<sq, code>> : sq \in Reachable(code) } : code \in NonKingCodes }

\* A table: the two kings plus the extra entries, no square used twice.
TableOf(rk, bk, extras) == { <<rk, RED + P_KING>>, <<bk, BLACK + P_KING>> } \cup extras

WellFormed(table) ==
    \A x, y \in table : x[1] = y[1] => x = y

(* ------------------------------------------------------------------ *)
(* The rule helper of the UI (isValidMove, isKingInCheck, makeMove,    *)
(* getLegalMovesForPiece). Its board is the 10 x 9 array the engine    *)
(* loads; a piece is written with the code loadBoard gives it.         *)
(* ------------------------------------------------------------------ *)
\* The 10 x 9 BoardState whose loadBoard image is b.
BoardState(b) == [sq \in AllSquares |-> b[sq]]

countPiecesBetween(ub, from, to) ==
    IF RowOf(from) = RowOf(to)
    THEN LET lo == IF ColOf(from) < ColOf(to) THEN ColOf(from) ELSE ColOf(to)
             hi == IF ColOf(from) < ColOf(to) THEN ColOf(to) ELSE ColOf(from)
         IN Cardinality({ c \in (lo + 1) .. (hi - 1) : ub[Sq(RowOf(from), c)] # 0 })
    ELSE LET lo == IF RowOf(from) < RowOf(to) THEN RowOf(from) ELSE RowOf(to)
             hi == IF RowOf(from) < RowOf(to) THEN RowOf(to) ELSE RowOf(from)
         IN Cardinality({ r \in (lo + 1) .. (hi - 1) : ub[Sq(r, ColOf(from))] # 0 })

isPathClear(ub, from, to) == countPiecesBetween(ub, from, to) = 0

\* isValidMove(board, {from, to}, turn), from a square of the board; r and c
\* are the coordinates of to.
isValidMove(ub, from, r, c, t) ==
    LET piece == ub[from]
        fr == RowOf(from)
        fc == ColOf(from)
        dr == r - fr
        dc == c - fc
        absDr == Abs(dr)
        absDc == Abs(dc)
        side == ColorOf(piece)
        type == TypeOf(piece)
    IN IF piece = 0 THEN FALSE
       ELSE IF side # t THEN FALSE
       ELSE IF fr = r /\ fc = c THEN FALSE
       ELSE IF r < 0 \/ r > 9 \/ c < 0 \/ c > 8 THEN FALSE
       ELSE IF ub[Sq(r, c)] # 0 /\ ColorOf(ub[Sq(r, c)]) = side THEN FALSE
       ELSE IF type = P_KING
            THEN absDr + absDc = 1 /\ ~(c < 3 \/ c > 5)
                 /\ (IF side = RED THEN ~(r < 7) ELSE ~(r > 2))
       ELSE IF type = P_ADVISOR
            THEN absDr = 1 /\ absDc = 1 /\ ~(c < 3 \/ c > 5)
                 /\ (IF side = RED THEN ~(r < 7) ELSE ~(r > 2))
       ELSE IF type = P_ELEPHANT
            THEN IF absDr # 2 \/ absDc # 2 THEN FALSE
                 ELSE IF ub[Sq(fr + dr \div 2, fc + dc \div 2)] # 0 THEN FALSE
                 ELSE IF side = RED THEN ~(r < 5) ELSE ~(r > 4)
       ELSE IF type = P_HORSE
            THEN IF ~((absDr = 2 /\ absDc = 1) \/ (absDr = 1 /\ absDc = 2)) THEN FALSE
                 ELSE IF absDr = 2
                      THEN ub[Sq(fr + (IF dr > 0 THEN 1 ELSE -1), fc)] = 0
                      ELSE ub[Sq(fr, fc + (IF dc > 0 THEN 1 ELSE -1))] = 0
       ELSE IF type = P_ROOK
            THEN IF fr # r /\ fc # c THEN FALSE ELSE isPathClear(ub, from, Sq(r, c))
       ELSE IF type = P_CANNON
            THEN IF fr # r /\ fc # c THEN FALSE
                 ELSE IF ub[Sq(r, c)] # 0
                      THEN countPiecesBetween(ub, from, Sq(r, c)) = 1
                      ELSE countPiecesBetween(ub, from, Sq(r, c)) = 0
       ELSE LET forward == IF side = RED THEN -1 ELSE 1
                crossed == IF side = RED THEN fr <= 4 ELSE fr >= 5
            IN IF side = RED /\ dr > 0 THEN FALSE
               ELSE IF side = BLACK /\ dr < 0 THEN FALSE
               ELSE IF crossed THEN absDr + absDc = 1
               ELSE dc = 0 /\ dr = forward

\* isKingInCheck(board, side) of the helper: the first king of side in row
\* order, the enemy king found last in files 3..5, then every enemy piece.
isKingInCheckUI(ub, side) ==
    LET enemy == Opp(side)
        own == { sq \in AllSquares : ub[sq] = side + P_KING }
        others == { sq \in AllSquares :
                      ub[sq] = enemy + P_KING /\ ColOf(sq) \in 3 .. 5 }
    IN IF own = {} THEN TRUE
       ELSE LET kingPos == CHOOSE sq \in own : \A o \in own : sq <= o
                facing ==
                    IF others = {} THEN FALSE
                    ELSE LET otherKingPos == CHOOSE sq \in others : \A o \in others : o <= sq
                         IN ColOf(otherKingPos) = ColOf(kingPos)
                            /\ isPathClear(ub, kingPos, otherKingPos)
            IN \/ facing
               \/ \E sq \in AllSquares :
                     /\ ub[sq] # 0
                     /\ ColorOf(ub[sq]) = enemy
                     /\ isValidMove(ub, sq, RowOf(kingPos), ColOf(kingPos), enemy)

\* makeMove(board, move) of the helper: a new board.
makeMoveUI(ub, from, to) == [ub EXCEPT ![to] = ub[from], ![from] = 0]

\* getLegalMovesForPiece(board, from, side): the destinations in row order.
getLegalMovesForPiece(ub, from, side) ==
    Flat([ i \in 1 .. 90 |->
             LET r == (i - 1) \div 9
                 c == (i - 1) % 9
             IN IF isValidMove(ub, from, r, c, side)
                   /\ ~isKingInCheckUI(makeMoveUI(ub, from, Sq(r, c)), side)
                THEN << Sq(r, c) >>
                ELSE << >> ])

(* ------------------------------------------------------------------ *)
(* State                                                               *)
(* ------------------------------------------------------------------ *)
VARIABLES
    board,          \* Int8Array(256) of piece codes
    turn,           \* RED or BLACK
    redKingPos,
    blackKingPos,
    currentHash,    \* EngineWorld's incrementally maintained hash
    zseed,          \* which ZOBRIST_TABLE / SIDE_KEY the last initZobrist drew
    loaded,         \* loadBoard has run
    stack,          \* moves made and not yet undone, innermost last
    probe,          \* the last generateMoves / isKingInCheck call and its result
    tt,             \* the transposition table
    historyTable,   \* the entries of historyTable that are not 0
    killers,        \* killers[ply]
    nodes,
    abort,
    frames,         \* the calls of search and quiescence that have not returned
    ret,            \* the value the last call returned
    query,          \* the locals of getBestMoveWorld and its result
    app             \* the state of the App component and its AI callback

posVars == << board, turn, redKingPos, blackKingPos, currentHash >>
searchVars == << tt, historyTable, killers, nodes, abort, frames, ret, query >>
vars ==
    << board, turn, redKingPos, blackKingPos, currentHash, zseed, loaded, stack, probe,
       tt, historyTable, killers, nodes, abort, frames, ret, query, app >>

\* The engine's position fields as one record.
Pos ==
    [board |-> board, turn |-> turn, redKingPos |-> redKingPos,
     blackKingPos |-> blackKingPos, currentHash |-> currentHash]

SetPos(P) ==
    /\ board' = P.board
    /\ turn' = P.turn
    /\ redKingPos' = P.redKingPos
    /\ blackKingPos' = P.blackKingPos
    /\ currentHash' = P.currentHash

NoProbe ==
    [op |-> "none", captureOnly |-> FALSE, side |-> RED, from |-> 0, moves |-> <<>>,
     result |-> FALSE]

EmptyPos ==
    [board |-> EmptyBoard, turn |-> RED, redKingPos |-> 0, blackKingPos |-> 0,
     currentHash |-> {}]

\* The Move returned to the caller for the move number bestMoveVal.
FinalMove(bestMoveVal) ==
    LET fromIdx == MoveFrom(bestMoveVal)
        toIdx == MoveTo(bestMoveVal)
    IN [from |-> [r |-> fromIdx \div 16, c |-> fromIdx % 16],
        to |-> [r |-> toIdx \div 16, c |-> toIdx % 16]]

NoResult ==
    [kind |-> "none", raw |-> 0, move |-> FinalMove(0), score |-> 0, fallback |-> FALSE]

\* No query is running. entry names the exported function of the last query,
\* lateAt the first node count, a multiple of 2048, at which the clock was
\* past stopTime (0: not yet), hit that the table had an entry under the hash
\* of the root when the query began.
IdleQuery ==
    [pc |-> "idle", entry |-> "getBestMoveWorld", n |-> 0, root |-> EmptyPos,
     hit |-> FALSE, difficulty |-> "none", maxDepth |-> 0, timeLimit |-> 0, lateAt |-> 0, d |-> 0,
     alpha |-> 0, beta |-> 0, bestMoveVal |-> 0, bestScore |-> 0, searchedDepth |-> 0,
     recorded |-> << >>, result |-> NoResult]

NoKillers == [p \in 0 .. (MAX_PLY - 1) |-> << 0, 0 >>]

\* Bounds of the model.
MaxPly == 2
PollCap == 1
MaxQueries == 1

Seeds == 1 .. NumSeeds

\* createInitialBoard(): the opening position as a BoardState.
createInitialBoard ==
    LET types == << P_ROOK, P_HORSE, P_ELEPHANT, P_ADVISOR, P_KING,
                    P_ADVISOR, P_ELEPHANT, P_HORSE, P_ROOK >>
    IN [sq \in AllSquares |->
          LET r == RowOf(sq)
              c == ColOf(sq)
          IN IF r = 0 THEN BLACK + types[c + 1]
             ELSE IF r = 9 THEN RED + types[c + 1]
             ELSE IF r = 2 /\ c \in {1, 7} THEN BLACK + P_CANNON
             ELSE IF r = 7 /\ c \in {1, 7} THEN RED + P_CANNON
             ELSE IF r = 3 /\ c \in {0, 2, 4, 6, 8} THEN BLACK + P_PAWN
             ELSE IF r = 6 /\ c \in {0, 2, 4, 6, 8} THEN RED + P_PAWN
             ELSE 0]

\* The state of App with ub on the board, side to move, the player playing
\* playerSide: nothing selected, no move made, no snapshot, no AI callback
\* in flight. A null (selectedPos, lastMove, the callback) is the empty
\* sequence, a value the sequence of that one value; plies counts the calls
\* of executeMove so far, aiTurns the callbacks of the AI move effect so far,
\* last names the handler that ran last, and pushedBy tells for each
\* snapshot of historyStack which handler pushed it.
AppOn(ub, side, playerSide) ==
    [board |-> ub, turn |-> side, playerSide |-> playerSide,
     selectedPos |-> << >>, validMoves |-> << >>, lastMove |-> << >>,
     status |-> "playing", isThinking |-> FALSE, moveHistory |-> << >>,
     isCheck |-> FALSE, evalScore |-> 0, historyStack |-> << >>,
     flight |-> << >>, plies |-> 0, aiTurns |-> 0, last |-> "none",
     pushedBy |-> << >>]

\* The useState initial values of App.
AppConstructed == AppOn(createInitialBoard, RED, RED)

\* After construction with the key table number seed: an empty board, Red
\* to move, the hash recomputed.
InitAt(seed) ==
    /\ zseed = seed
    /\ board = EmptyBoard
    /\ turn = RED
    /\ redKingPos = 0
    /\ blackKingPos = 0
    /\ currentHash = recomputeHash(zseed, EmptyBoard, RED)
    /\ loaded = FALSE
    /\ stack = <<>>
    /\ probe = NoProbe
    /\ tt = {}
    /\ historyTable = << >>
    /\ killers = NoKillers
    /\ nodes = 0
    /\ abort = FALSE
    /\ frames = << >>
    /\ ret = 0
    /\ query = IdleQuery

Init == \E seed \in Seeds : InitAt(seed) /\ app = AppConstructed

\* loadBoard(uiBoard, turnSide) for a table of the family `tables`.
LoadBoard(tables) ==
    /\ ~loaded
    /\ \E table \in tables, t \in {RED, BLACK} :
          SetPos(loadBoard(zseed, table, t))
    /\ loaded' = TRUE
    /\ UNCHANGED << zseed, stack, probe, app, searchVars >>

\* generateMoves(captureOnly) on the current position.
GenerateMoves ==
    /\ loaded
    /\ stack = <<>>
    /\ probe.op = "none"
    /\ \E captureOnly \in BOOLEAN :
          probe' = [NoProbe EXCEPT !.op = "generateMoves",
                                   !.captureOnly = captureOnly,
                                   !.moves = generateMoves(board, turn, captureOnly)]
    /\ UNCHANGED << posVars, zseed, loaded, stack, searchVars, app >>

\* isKingInCheck(side) on the current position.
IsKingInCheck ==
    /\ loaded
    /\ stack = <<>>
    /\ probe.op = "none"
    /\ \E side \in {RED, BLACK} :
          probe' = [NoProbe EXCEPT !.op = "isKingInCheck",
                                   !.side = side,
                                   !.result = isKingInCheck(board, redKingPos, blackKingPos, side)]
    /\ UNCHANGED << posVars, zseed, loaded, stack, searchVars, app >>

\* getLegalMovesForPiece(board, from, side) for a piece of the side to move on
\* the board the engine has loaded.
GetLegalMovesForPiece ==
    /\ loaded
    /\ stack = <<>>
    /\ probe.op = "none"
    /\ \E from \in AllSquares :
          /\ board[from] # 0
          /\ ColorOf(board[from]) = turn
          /\ probe' = [NoProbe EXCEPT !.op = "getLegalMovesForPiece",
                                      !.side = turn,
                                      !.from = from,
                                      !.moves = getLegalMovesForPiece(BoardState(board),
                                                                      from, turn)]
    /\ UNCHANGED << posVars, zseed, loaded, stack, searchVars, app >>

\* The last move made left its mover's king in check: search and quiescence
\* take such a move back at once and go on with the next one.
LastMoveRejected ==
    /\ stack # <<>>
    /\ ~stack[Len(stack)].null
    /\ isKingInCheck(board, redKingPos, blackKingPos, Opp(turn))

\* makeMove(m) for a move m of generateMoves(), as the move loops of search
\* and quiescence call it; the frame keeps what undoMove is later called with,
\* and the position before the move.
MakeMove ==
    /\ loaded
    /\ query.pc = "idle"
    /\ Len(stack) < MaxPly
    /\ ~LastMoveRejected
    /\ \E m \in SeqToSet(generateMoves(board, turn, FALSE)) :
          LET res == makeMove(zseed, Pos, m) IN
          /\ SetPos(res.pos)
          /\ stack' = Append(stack, [null |-> FALSE, move |-> m,
                                     captured |-> res.captured, before |-> Pos])
    /\ UNCHANGED << zseed, loaded, probe, app, searchVars >>

\* undoMove(m, captured) for the innermost move.
UndoMove ==
    /\ stack # <<>>
    /\ ~stack[Len(stack)].null
    /\ LET top == stack[Len(stack)] IN
          SetPos(undoMove(zseed, Pos, top.move, top.captured))
    /\ stack' = SubSeq(stack, 1, Len(stack) - 1)
    /\ UNCHANGED << zseed, loaded, probe, app, searchVars >>

\* The null move of search: switchSide(), taken when the previous step was
\* not a null move and the side to move is not in check.
NullMove ==
    /\ loaded
    /\ query.pc = "idle"
    /\ Len(stack) < MaxPly
    /\ IF stack = <<>> THEN TRUE ELSE ~stack[Len(stack)].null
    /\ ~LastMoveRejected
    /\ ~isKingInCheck(board, redKingPos, blackKingPos, turn)
    /\ SetPos(switchSide(zseed, Pos))
    /\ stack' = Append(stack, [null |-> TRUE, move |-> 0, captured |-> 0, before |-> Pos])
    /\ UNCHANGED << zseed, loaded, probe, app, searchVars >>

\* The switchSide() that takes the null move back.
UndoNull ==
    /\ stack # <<>>
    /\ stack[Len(stack)].null
    /\ SetPos(switchSide(zseed, Pos))
    /\ stack' = SubSeq(stack, 1, Len(stack) - 1)
    /\ UNCHANGED << zseed, loaded, probe, app, searchVars >>

\* reset() without the closing recomputeHash().
ResetKeepingHash ==
    /\ stack = <<>>
    /\ query.pc \in {"idle", "done"}
    /\ \E s \in Seeds : zseed' = s
    /\ tt' = {}
    /\ historyTable' = << >>
    /\ killers' = NoKillers
    /\ UNCHANGED << posVars, loaded, stack, probe, app, nodes, abort, frames, ret, query >>

\* EngineWorld.reset(), between queries: the tables cleared, new keys drawn,
\* the hash recomputed.
Reset ==
    /\ stack = <<>>
    /\ query.pc \in {"idle", "done"}
    /\ \E s \in Seeds :
          /\ zseed' = s
          /\ currentHash' = recomputeHash(s, board, turn)
    /\ tt' = {}
    /\ historyTable' = << >>
    /\ killers' = NoKillers
    /\ UNCHANGED << board, turn, redKingPos, blackKingPos, loaded, stack, probe, app,
                    nodes, abort, frames, ret, query >>

(* ------------------------------------------------------------------ *)
(* search and quiescence, one call frame per call                      *)
(* ------------------------------------------------------------------ *)
\* A call of search(depth, alpha, beta, ply, isNull) about to run. scored
\* is a history variable: each legal move searched with the score it got.
SearchFrame(depth, alpha, beta, ply, isNull) ==
    [fn |-> "search", pc |-> "enter", depth |-> depth, alpha |-> alpha, beta |-> beta,
     ply |-> ply, isNull |-> isNull, inCheck |-> FALSE, hash |-> {}, ttEntry |-> NoEntry,
     moves |-> << >>, i |-> 1, legalMoves |-> 0, bestScore |-> NegInfinity, bestMove |-> 0,
     ttType |-> 2, originalAlpha |-> alpha, move |-> 0, captured |-> 0,
     reduction |-> 0, stage |-> "none", scored |-> {}]

\* A call of quiescence(alpha, beta) about to run.
QuiesFrame(alpha, beta, ply) ==
    [SearchFrame(0, alpha, beta, ply, FALSE) EXCEPT !.fn = "quiescence"]

Top == frames[Len(frames)]

\* return v
Return(v) ==
    /\ frames' = SubSeq(frames, 1, Len(frames) - 1)
    /\ ret' = v

\* The running call goes on as frame f.
Continue(f) ==
    /\ frames' = [frames EXCEPT ![Len(frames)] = f]
    /\ UNCHANGED ret

\* The running call, now frame f, calls child.
Call(f, child) ==
    /\ frames' = Append([frames EXCEPT ![Len(frames)] = f], child)
    /\ UNCHANGED ret

\* Date.now() > this.stopTime when the node count is n: true once it was
\* true, either answer while the deadline may still lie ahead, true after
\* PollCap multiples of 2048.
Late(n) ==
    IF query.lateAt # 0 \/ n \div 2048 > PollCap THEN {TRUE} ELSE BOOLEAN

\* The polls: every 2048th node reads the clock.
Polls(n) == IF n % 2048 = 0 THEN Late(n) ELSE {FALSE}

\* The query record after the clock was found past stopTime, or not, at node
\* count n.
Clocked(q, n, late) ==
    IF late /\ q.lateAt = 0 THEN [q EXCEPT !.lateAt = n] ELSE q

\* The engine at work is the EngineWorld of getBestMoveWorld; otherwise it is
\* the Engine of getBestMove.
World == query.entry = "getBestMoveWorld"

\* getHash(): the field currentHash of EngineWorld, a scan of the board in
\* Engine.
getHash(P) ==
    IF World THEN P.currentHash ELSE recomputeHash(zseed, P.board, P.turn)

KillersAt(ply) == killers[IF ply < MAX_PLY THEN ply ELSE MAX_PLY - 1]

\* generateMoves(), orderMoves and the locals of the move loop, on position P.
BeginLoop(f, P) ==
    [f EXCEPT !.pc = "loop",
              !.moves = IF World
                        THEN orderMoves(P.board, generateMoves(P.board, P.turn, FALSE),
                                        f.ttEntry, KillersAt(f.ply), historyTable)
                        ELSE sortMovesEngine(P.board, generateMoves(P.board, P.turn, FALSE),
                                             f.ttEntry, historyTable),
              !.i = 1, !.legalMoves = 0, !.bestScore = NegInfinity, !.bestMove = 0,
              !.ttType = 2, !.originalAlpha = f.alpha]

\* A cutoff on any entry found, whatever its depth.
TTCutoffAnyDepth(e, depth, alpha, beta, inCheck) ==
    /\ e.present
    /\ ~inCheck
    /\ \/ e.type = 0
       \/ e.type = 1 /\ e.score >= beta
       \/ e.type = 2 /\ e.score <= alpha

\* The transposition-table cutoff at the head of search.
TTCutoff(e, depth, alpha, beta, inCheck) ==
    /\ e.present
    /\ e.depth >= depth
    /\ ~inCheck
    /\ \/ e.type = 0
       \/ e.type = 1 /\ e.score >= beta
       \/ e.type = 2 /\ e.score <= alpha

\* search, from its entry to the first call it makes or to its move loop.
SearchEnter ==
    /\ frames # << >>
    /\ Top.fn = "search"
    /\ Top.pc = "enter"
    /\ nodes' = nodes + 1
    /\ \E late \in Polls(nodes + 1) :
        LET f == Top
            inCheck == isKingInCheck(board, redKingPos, blackKingPos, turn)
            e == ttGet(tt, getHash(Pos))
            depth == IF f.depth <= 0 /\ World THEN 1 ELSE f.depth
            g == [f EXCEPT !.depth = depth, !.inCheck = inCheck,
                           !.hash = getHash(Pos), !.ttEntry = e]
        IN /\ abort' = (abort \/ late)
           /\ query' = Clocked(query, nodes + 1, late)
           /\ IF abort \/ late
              THEN Return(f.alpha) /\ UNCHANGED posVars
              ELSE IF TTCutoff(e, f.depth, f.alpha, f.beta, inCheck)
              THEN Return(e.score) /\ UNCHANGED posVars
              ELSE IF f.depth <= 0 /\ (~inCheck \/ ~World)
              THEN Continue(QuiesFrame(f.alpha, f.beta, f.ply)) /\ UNCHANGED posVars
              ELSE IF ~f.isNull /\ ~inCheck /\ depth >= 3
              THEN /\ SetPos(switchSide(zseed, Pos))
                   /\ Call([g EXCEPT !.pc = "null"],
                           SearchFrame(depth - 1 - 2, -f.beta, -f.beta + 1, f.ply + 1, TRUE))
              ELSE Continue(BeginLoop(g, Pos)) /\ UNCHANGED posVars
    /\ UNCHANGED << zseed, loaded, stack, probe, app, tt, historyTable, killers >>

\* The return of the null-move call without the second switchSide().
SearchNullReturnKeepingTurn ==
    /\ frames # << >>
    /\ Top.fn = "search"
    /\ Top.pc = "null"
    /\ UNCHANGED posVars
    /\ IF abort THEN Return(Top.alpha)
       ELSE IF -ret >= Top.beta THEN Return(Top.beta)
       ELSE Continue(BeginLoop(Top, Pos))
    /\ UNCHANGED << zseed, loaded, stack, probe, app, tt, historyTable, killers, nodes, abort, query >>

\* search after its null-move call has returned.
SearchNullReturn ==
    /\ frames # << >>
    /\ Top.fn = "search"
    /\ Top.pc = "null"
    /\ SetPos(switchSide(zseed, Pos))
    /\ IF abort THEN Return(Top.alpha)
       ELSE IF -ret >= Top.beta THEN Return(Top.beta)
       ELSE Continue(BeginLoop(Top, switchSide(zseed, Pos)))
    /\ UNCHANGED << zseed, loaded, stack, probe, app, tt, historyTable, killers, nodes, abort, query >>

\* The end of search without the test for no legal move.
FinishSearchNoMateTest(f) ==
    /\ tt' = IF f.bestMove # 0
             THEN ttSet(tt, f.hash, f.depth, f.bestScore, f.ttType, f.bestMove)
             ELSE tt
    /\ Return(f.bestScore)

\* The end of search: the mate or stalemate score, or the table entry and the
\* best score of frame f.
FinishSearch(f) ==
    IF f.legalMoves = 0
    THEN /\ Return(IF f.inCheck THEN -20000 + f.ply ELSE 0)
         /\ UNCHANGED tt
    ELSE /\ tt' = IF ~World
                  THEN ttSet(tt, f.hash, f.depth, f.bestScore, f.ttType, f.bestMove)
                  ELSE IF f.bestMove # 0
                  THEN ttSet(tt, f.hash, f.depth, f.bestScore,
                             IF f.bestScore <= f.originalAlpha THEN 2 ELSE f.ttType,
                             f.bestMove)
                  ELSE tt
         /\ Return(f.bestScore)

\* The head of the move loop of search: the next move is made, or the loop
\* is over.
SearchLoop ==
    /\ frames # << >>
    /\ Top.fn = "search"
    /\ Top.pc = "loop"
    /\ IF Top.i > Len(Top.moves)
       THEN FinishSearch(Top) /\ UNCHANGED posVars
       ELSE LET move == Top.moves[Top.i]
                res == makeMove(zseed, Pos, move)
            IN /\ SetPos(res.pos)
               /\ Continue([Top EXCEPT !.pc = "made", !.move = move,
                                       !.captured = res.captured])
               /\ UNCHANGED tt
    /\ UNCHANGED << zseed, loaded, stack, probe, app, historyTable, killers, nodes, abort, query >>

\* The move loop with the late-move reduction from the second move on.
SearchMadeReducingEarly ==
    /\ frames # << >>
    /\ Top.fn = "search"
    /\ Top.pc = "made"
    /\ LET f == Top
           legalMoves == f.legalMoves + 1
           reduction == IF World /\ f.depth >= 3 /\ f.captured = 0
                           /\ ~f.inCheck
                        THEN 1 ELSE 0
       IN IF isKingInCheck(board, redKingPos, blackKingPos, Opp(turn))
          THEN /\ SetPos(undoMove(zseed, Pos, f.move, f.captured))
               /\ Continue([f EXCEPT !.pc = "loop", !.i = f.i + 1])
          ELSE /\ UNCHANGED posVars
               /\ IF f.i = 1
                  THEN Call([f EXCEPT !.pc = "child", !.legalMoves = legalMoves,
                                      !.reduction = 0, !.stage = "full"],
                            SearchFrame(f.depth - 1, -f.beta, -f.alpha, f.ply + 1, FALSE))
                  ELSE Call([f EXCEPT !.pc = "child", !.legalMoves = legalMoves,
                                      !.reduction = reduction, !.stage = "zw"],
                            SearchFrame(f.depth - 1 - reduction, -f.alpha - 1, -f.alpha,
                                        f.ply + 1, FALSE))
    /\ UNCHANGED << zseed, loaded, stack, probe, app, tt, historyTable, killers, nodes, abort, query >>

\* After makeMove in search: the move is taken back when it leaves the
\* mover's king in check, and searched otherwise (PVS, late-move reduction).
SearchMade ==
    /\ frames # << >>
    /\ Top.fn = "search"
    /\ Top.pc = "made"
    /\ LET f == Top
           legalMoves == f.legalMoves + 1
           reduction == IF World /\ f.depth >= 3 /\ legalMoves > 4 /\ f.captured = 0
                           /\ ~f.inCheck
                        THEN 1 ELSE 0
       IN IF isKingInCheck(board, redKingPos, blackKingPos, Opp(turn))
          THEN /\ SetPos(undoMove(zseed, Pos, f.move, f.captured))
               /\ Continue([f EXCEPT !.pc = "loop", !.i = f.i + 1])
          ELSE /\ UNCHANGED posVars
               /\ IF f.i = 1
                  THEN Call([f EXCEPT !.pc = "child", !.legalMoves = legalMoves,
                                      !.reduction = 0, !.stage = "full"],
                            SearchFrame(f.depth - 1, -f.beta, -f.alpha, f.ply + 1, FALSE))
                  ELSE Call([f EXCEPT !.pc = "child", !.legalMoves = legalMoves,
                                      !.reduction = reduction, !.stage = "zw"],
                            SearchFrame(f.depth - 1 - reduction, -f.alpha - 1, -f.alpha,
                                        f.ply + 1, FALSE))
    /\ UNCHANGED << zseed, loaded, stack, probe, app, tt, historyTable, killers, nodes, abort, query >>

\* The killer update that shifts the slots whatever slot 0 holds.
KillersAfterAlwaysShifting(ply, move) ==
    LET idx == IF ply < MAX_PLY THEN ply ELSE MAX_PLY - 1
        ks == killers[idx]
    IN [killers EXCEPT ![idx] = << move, ks[1] >>]

\* killers[ply] after a quiet move caused a cutoff.
KillersAfter(ply, move) ==
    LET idx == IF ply < MAX_PLY THEN ply ELSE MAX_PLY - 1
        ks == killers[idx]
    IN IF ks[1] # move THEN [killers EXCEPT ![idx] = << move, ks[1] >>] ELSE killers

\* historyTable[move] += depth * depth; a write outside the array is ignored.
HistoryAfter(move, depth) ==
    IF move \in 0 .. (BOARD_SIZE * BOARD_SIZE - 1)
    THEN [m \in DOMAIN historyTable \cup {move} |->
             IF m = move THEN HistoryGet(historyTable, move) + depth * depth
             ELSE historyTable[m]]
    ELSE historyTable

\* The abort return that stores the move in hand with the score so far.
LoopAbortStoring(f) ==
    /\ Return(f.alpha)
    /\ tt' = ttSet(tt, f.hash, f.depth, f.alpha, 2, f.move)

\* The abort test that lets the move loop go on.
LoopAbortIgnored(f) ==
    /\ Continue([f EXCEPT !.pc = "loop", !.i = f.i + 1])
    /\ UNCHANGED tt

\* if (this.abort) return alpha, in the move loop of search: nothing is
\* stored.
LoopAbort(f) ==
    /\ Return(f.alpha)
    /\ UNCHANGED tt

\* search after a call for the move in hand has returned: the re-searches,
\* then undoMove, the abort test, the best move, alpha and the cutoff.
SearchChildReturn ==
    /\ frames # << >>
    /\ Top.fn = "search"
    /\ Top.pc = "child"
    /\ LET f == Top
           score == -ret
           better == score > f.bestScore
           raised == score > f.alpha
           alpha == IF raised THEN score ELSE f.alpha
           g == [f EXCEPT !.bestScore = IF better THEN score ELSE f.bestScore,
                          !.bestMove = IF better THEN f.move ELSE f.bestMove,
                          !.alpha = alpha,
                          !.ttType = IF raised THEN 0 ELSE f.ttType,
                          !.scored = @ \cup { << f.move, score >> }]
       IN IF f.stage = "zw" /\ score > f.alpha /\ f.reduction > 0
          THEN /\ Call([f EXCEPT !.stage = "zw2"],
                       SearchFrame(f.depth - 1, -f.alpha - 1, -f.alpha, f.ply + 1, FALSE))
               /\ UNCHANGED << posVars, tt, historyTable, killers >>
          ELSE IF f.stage \in {"zw", "zw2"} /\ score > f.alpha /\ score < f.beta
          THEN /\ Call([f EXCEPT !.stage = "full"],
                       SearchFrame(f.depth - 1, -f.beta, -f.alpha, f.ply + 1, FALSE))
               /\ UNCHANGED << posVars, tt, historyTable, killers >>
          ELSE /\ SetPos(undoMove(zseed, Pos, f.move, f.captured))
               /\ IF abort
                  THEN LoopAbort(f) /\ UNCHANGED << historyTable, killers >>
                  ELSE IF alpha >= f.beta
                  THEN /\ killers' = IF World /\ f.captured = 0
                                     THEN KillersAfter(f.ply, f.move)
                                     ELSE killers
                       /\ historyTable' = IF f.captured = 0
                                          THEN HistoryAfter(f.move, f.depth)
                                          ELSE historyTable
                       /\ FinishSearch([g EXCEPT !.ttType = 1])
                  ELSE /\ Continue([g EXCEPT !.pc = "loop", !.i = f.i + 1])
                       /\ UNCHANGED << tt, historyTable, killers >>
    /\ UNCHANGED << zseed, loaded, stack, probe, app, nodes, abort, query >>

\* quiescence, from its entry to its capture loop.
QuiesEnter ==
    /\ frames # << >>
    /\ Top.fn = "quiescence"
    /\ Top.pc = "enter"
    /\ nodes' = nodes + 1
    /\ \E late \in Polls(nodes + 1) :
        LET f == Top
            standPat == IF World THEN evaluate(Pos) ELSE evaluateEngine(zseed, Pos)
        IN /\ abort' = IF World THEN abort \/ late ELSE abort
           /\ query' = Clocked(query, nodes + 1, late)
           /\ IF World /\ (abort \/ late) THEN Return(f.alpha)
              ELSE IF standPat >= f.beta THEN Return(f.beta)
              ELSE Continue([f EXCEPT
                       !.pc = "loop",
                       !.alpha = IF f.alpha < standPat THEN standPat ELSE f.alpha,
                       !.moves = sortCaptures(board, generateMoves(board, turn, TRUE)),
                       !.i = 1])
    /\ UNCHANGED << posVars, zseed, loaded, stack, probe, app, tt, historyTable, killers >>

\* The head of the capture loop of quiescence.
QuiesLoop ==
    /\ frames # << >>
    /\ Top.fn = "quiescence"
    /\ Top.pc = "loop"
    /\ IF Top.i > Len(Top.moves)
       THEN Return(Top.alpha) /\ UNCHANGED posVars
       ELSE LET move == Top.moves[Top.i]
                res == makeMove(zseed, Pos, move)
            IN /\ SetPos(res.pos)
               /\ Continue([Top EXCEPT !.pc = "made", !.move = move,
                                       !.captured = res.captured])
    /\ UNCHANGED << zseed, loaded, stack, probe, app, tt, historyTable, killers, nodes, abort, query >>

\* After makeMove in quiescence.
QuiesMade ==
    /\ frames # << >>
    /\ Top.fn = "quiescence"
    /\ Top.pc = "made"
    /\ IF isKingInCheck(board, redKingPos, blackKingPos, Opp(turn))
       THEN /\ SetPos(undoMove(zseed, Pos, Top.move, Top.captured))
            /\ Continue([Top EXCEPT !.pc = "loop", !.i = Top.i + 1])
       ELSE /\ UNCHANGED posVars
            /\ Call([Top EXCEPT !.pc = "child"],
                    QuiesFrame(-Top.beta, -Top.alpha, Top.ply + 1))
    /\ UNCHANGED << zseed, loaded, stack, probe, app, tt, historyTable, killers, nodes, abort, query >>

\* quiescence after the call for the capture in hand has returned, the
\* capture left on the board.
QuiesChildReturnKeepingMove ==
    /\ frames # << >>
    /\ Top.fn = "quiescence"
    /\ Top.pc = "child"
    /\ UNCHANGED posVars
    /\ IF World /\ abort THEN Return(Top.alpha)
       ELSE IF -ret >= Top.beta THEN Return(Top.beta)
       ELSE Continue([Top EXCEPT !.pc = "loop", !.i = Top.i + 1,
                                 !.alpha = IF -ret > Top.alpha THEN -ret ELSE Top.alpha])
    /\ UNCHANGED << zseed, loaded, stack, probe, app, tt, historyTable, killers, nodes, abort, query >>

\* quiescence after the call for the capture in hand has returned.
QuiesChildReturn ==
    /\ frames # << >>
    /\ Top.fn = "quiescence"
    /\ Top.pc = "child"
    /\ SetPos(undoMove(zseed, Pos, Top.move, Top.captured))
    /\ IF World /\ abort THEN Return(Top.alpha)
       ELSE IF -ret >= Top.beta THEN Return(Top.beta)
       ELSE Continue([Top EXCEPT !.pc = "loop", !.i = Top.i + 1,
                                 !.alpha = IF -ret > Top.alpha THEN -ret ELSE Top.alpha])
    /\ UNCHANGED << zseed, loaded, stack, probe, app, tt, historyTable, killers, nodes, abort, query >>

(* ------------------------------------------------------------------ *)
(* getBestMove and getBestMoveWorld                                    *)
(* ------------------------------------------------------------------ *)
Difficulties == {"Beginner", "Intermediate", "Expert", "Master", "Grandmaster"}

\* maxDepth of the difficulty switch of getBestMove.
MaxDepthOfEngine(difficulty) ==
    CASE difficulty = "Beginner" -> 2
      [] difficulty = "Intermediate" -> 4
      [] difficulty = "Expert" -> 6
      [] difficulty = "Master" -> 8
      [] difficulty = "Grandmaster" -> 20
      [] OTHER -> 4

\* timeLimit of the difficulty switch of getBestMove.
TimeLimitOfEngine(difficulty) ==
    CASE difficulty = "Beginner" -> 500
      [] difficulty = "Intermediate" -> 1000
      [] difficulty = "Expert" -> 2000
      [] difficulty = "Master" -> 3000
      [] difficulty = "Grandmaster" -> 3000
      [] OTHER -> 1000

\* timeLimit of the difficulty switch of getBestMoveWorld.
TimeLimitOf(difficulty) ==
    CASE difficulty = "Beginner" -> 800
      [] difficulty = "Intermediate" -> 1500
      [] difficulty = "Expert" -> 2500
      [] difficulty = "Master" -> 4000
      [] difficulty = "Grandmaster" -> 6000
      [] OTHER -> 1500

\* maxDepth of the difficulty switch of getBestMoveWorld.
MaxDepthOf(difficulty) ==
    CASE difficulty = "Beginner" -> 3
      [] difficulty = "Intermediate" -> 5
      [] difficulty = "Expert" -> 7
      [] difficulty = "Master" -> 10
      [] difficulty = "Grandmaster" -> 24
      [] OTHER -> 6

\* A query that begins on empty tables.
BeginQueryOnClearedTables(entry, tables, difficulties) ==
    /\ query.pc \in {"idle", "done"}
    /\ stack = << >>
    /\ \E table \in tables, t \in {RED, BLACK}, difficulty \in difficulties :
          LET P == loadBoard(zseed, table, t) IN
          /\ SetPos(P)
          /\ query' = [IdleQuery EXCEPT
                          !.pc = "search", !.entry = entry, !.n = query.n + 1, !.root = P,
                          !.difficulty = difficulty,
                          !.maxDepth = MaxDepthOf(difficulty),
                          !.timeLimit = TimeLimitOf(difficulty),
                          !.d = 1, !.alpha = -30000, !.beta = 30000]
    /\ loaded' = TRUE
    /\ abort' = FALSE
    /\ nodes' = 0
    /\ frames' = << SearchFrame(1, -30000, 30000, 0, FALSE) >>
    /\ tt' = {}
    /\ historyTable' = << >>
    /\ killers' = NoKillers
    /\ UNCHANGED << zseed, stack, probe, app, ret >>

\* getBestMove or getBestMoveWorld (board, turn, difficulty, lang) up to its
\* first call of search: the board loaded, abort and nodes cleared, the
\* depth and the time limit of the difficulty, the first window.
BeginQuery(entry, tables, difficulties) ==
    /\ query.pc \in {"idle", "done"}
    /\ stack = << >>
    /\ \E table \in tables, t \in {RED, BLACK}, difficulty \in difficulties :
          LET world == entry = "getBestMoveWorld"
              P == IF world THEN loadBoard(zseed, table, t)
                   ELSE loadBoardEngine(Pos, table, t)
          IN
          /\ SetPos(P)
          /\ query' = [IdleQuery EXCEPT
                          !.pc = "search", !.entry = entry, !.n = query.n + 1, !.root = P,
                          !.difficulty = difficulty,
                          !.hit = ttGet(tt, IF world THEN P.currentHash
                                            ELSE recomputeHash(zseed, P.board, P.turn)).present,
                          !.maxDepth = IF world THEN MaxDepthOf(difficulty)
                                       ELSE MaxDepthOfEngine(difficulty),
                          !.timeLimit = IF world THEN TimeLimitOf(difficulty)
                                        ELSE TimeLimitOfEngine(difficulty),
                          !.d = 1, !.alpha = -30000, !.beta = 30000]
    /\ loaded' = TRUE
    /\ abort' = FALSE
    /\ nodes' = 0
    /\ frames' = << SearchFrame(1, -30000, 30000, 0, FALSE) >>
    /\ UNCHANGED << zseed, stack, probe, app, tt, historyTable, killers, ret >>

\* One of the first MaxQueries queries of the engine.
StartQuery(entry, tables, difficulties) ==
    /\ query.n < MaxQueries
    /\ BeginQuery(entry, tables, difficulties)

\* AfterIteration that takes the root entry and the score after an aborted
\* iteration too.
AfterIterationIgnoringAbort(q, aborted, entry, score) ==
    IF entry.present /\ entry.move # 0
    THEN [q EXCEPT !.bestMoveVal = entry.move, !.bestScore = score, !.searchedDepth = q.d]
    ELSE q

\* The locals of getBestMoveWorld after iteration q.d has returned score:
\* untouched after an abort (break), else the move of the root entry, the
\* score and the depth when the entry has a move.
AfterIteration(q, aborted, entry, score) ==
    IF aborted THEN q
    ELSE IF entry.present /\ entry.move # 0
    THEN [q EXCEPT !.bestMoveVal = entry.move, !.bestScore = score, !.searchedDepth = q.d]
    ELSE q

\* The body of the deepening loop after search has returned: the aspiration
\* window, the abort test, the root entry, the mate exit, the next depth.
IterationReturn ==
    /\ frames = << >>
    /\ query.pc \in {"search", "research"}
    /\ LET q == query
           score == ret
           entry == ttGet(tt, getHash(Pos))
           found == entry.present /\ entry.move # 0
           q0 == IF World /\ q.pc = "search"
                 THEN [q EXCEPT !.alpha = score - 50, !.beta = score + 50]
                 ELSE q
           q1 == AfterIteration(q0, abort, entry, score)
           q2 == IF found
                 THEN [q1 EXCEPT !.recorded = Append(q.recorded,
                                     [d |-> q.d, move |-> entry.move, score |-> score])]
                 ELSE q1
       IN IF World /\ q.pc = "search" /\ (score <= q.alpha \/ score >= q.beta)
          THEN /\ query' = [q EXCEPT !.pc = "research", !.alpha = -30000, !.beta = 30000]
               /\ frames' = << SearchFrame(q.d, -30000, 30000, 0, FALSE) >>
          ELSE IF abort
          THEN /\ query' = [q1 EXCEPT !.pc = "finish"]
               /\ UNCHANGED frames
          ELSE IF Abs(score) > 15000 \/ q.d + 1 > q.maxDepth
          THEN /\ query' = [q2 EXCEPT !.pc = "finish"]
               /\ UNCHANGED frames
          ELSE /\ query' = [q2 EXCEPT !.pc = "search", !.d = q.d + 1]
               /\ frames' = << SearchFrame(q.d + 1, q2.alpha, q2.beta, 0, FALSE) >>
    /\ UNCHANGED << posVars, zseed, loaded, stack, probe, app, tt, historyTable, killers,
                    nodes, abort, ret >>

\* The end of getBestMoveWorld: the recorded best move, or a move drawn at
\* random from generateMoves(), or null.
FinishQuery ==
    /\ query.pc = "finish"
    /\ LET q == query
           moves == generateMoves(board, turn, FALSE)
       IN IF q.bestMoveVal # 0
          THEN query' = [q EXCEPT !.pc = "done",
                            !.result = [kind |-> "move", raw |-> q.bestMoveVal,
                                        move |-> FinalMove(q.bestMoveVal),
                                        score |-> q.bestScore, fallback |-> FALSE]]
          ELSE IF moves # << >>
          THEN \E k \in 1 .. Len(moves) :
                  query' = [q EXCEPT !.pc = "done", !.bestMoveVal = moves[k],
                              !.result = [kind |-> "move", raw |-> moves[k],
                                          move |-> FinalMove(moves[k]),
                                          score |-> q.bestScore, fallback |-> TRUE]]
          ELSE query' = [q EXCEPT !.pc = "done",
                           !.result = [NoResult EXCEPT !.kind = "null", !.fallback = TRUE]]
    /\ UNCHANGED << posVars, zseed, loaded, stack, probe, app, tt, historyTable, killers,
                    nodes, abort, frames, ret >>

(* ------------------------------------------------------------------ *)
(* Specifications                                                      *)
(* ------------------------------------------------------------------ *)
\* Boards with the two kings and one more piece anywhere it can stand.
KingPairs == { <<Sq(9, 4), Sq(0, 4)>>, <<Sq(8, 4), Sq(1, 3)>>, <<Sq(9, 3), Sq(0, 5)>> }

OneExtraTables ==
    { t \in { TableOf(kp[1], kp[2], {x}) : kp \in KingPairs, x \in AllPlacements } :
        WellFormed(t) }

\* Boards with the kings on different files and two more pieces next to a
\* palace, where legs, eyes, screens and blockers come into play.
ZoneSquares ==
    { Sq(0, 3), Sq(1, 3), Sq(1, 4), Sq(2, 3), Sq(2, 4), Sq(3, 4), Sq(1, 2), Sq(2, 2) }

SwapColor(code) == IF ColorOf(code) = RED THEN code + 8 ELSE code - 8

MirrorEntry(x) == << Mirror(x[1]), SwapColor(x[2]) >>

ZonePlacements == { x \in AllPlacements : x[1] \in ZoneSquares }

TwoExtraTables ==
    LET top == { t \in { TableOf(Sq(9, 3), Sq(0, 4), {x, y}) :
                           x \in ZonePlacements, y \in ZonePlacements } :
                   WellFormed(t) /\ Cardinality(t) = 4 }
    IN top \cup { { MirrorEntry(x) : x \in t } : t \in top }

WideTables == OneExtraTables \cup TwoExtraTables

\* The initial states with the first key table.
InitGen == Init /\ zseed = 1

\* Boards for the make / undo walks: the kings at home or one step out and one
\* more piece next to a palace.
WalkSquares == { Sq(1, 3), Sq(2, 3), Sq(2, 4), Sq(8, 3), Sq(7, 3), Sq(7, 4) }

WalkTables ==
    { t \in { TableOf(kp[1], kp[2], {x}) :
                kp \in { <<Sq(9, 4), Sq(0, 4)>>, <<Sq(8, 4), Sq(1, 3)>> },
                x \in { y \in AllPlacements : y[1] \in WalkSquares } } :
        WellFormed(t) }

Next ==
    \/ LoadBoard(WalkTables)
    \/ MakeMove
    \/ UndoMove
    \/ NullMove
    \/ UndoNull
    \/ Reset

Spec == Init /\ [][Next]_vars

NextGen ==
    \/ LoadBoard(WideTables)
    \/ GenerateMoves
    \/ IsKingInCheck

SpecGen == InitGen /\ [][NextGen]_vars

\* The rule helper of the UI beside the engine, on the same boards.
NextHelper ==
    \/ LoadBoard(WideTables)
    \/ GetLegalMovesForPiece

SpecHelper == InitGen /\ [][NextHelper]_vars

\* Roots of the queries: a mate in one for either side, a stalemate, small boards on which
\* the search runs to its full depth, a board whose third iteration passes
\* node 2048, and a middlegame board whose first iteration does.
MateRoot ==
    { << Sq(9, 3), RED + P_KING >>, << Sq(0, 4), BLACK + P_KING >>,
      << Sq(0, 0), RED + P_ROOK >>, << Sq(1, 8), RED + P_ROOK >> }

\* Black mates in one: the rook of (5,0) to (9,0).
BackRankRoot ==
    { << Sq(9, 4), RED + P_KING >>, << Sq(0, 3), BLACK + P_KING >>,
      << Sq(5, 0), BLACK + P_ROOK >>, << Sq(8, 8), BLACK + P_ROOK >> }

StalemateRoot ==
    { << Sq(9, 4), RED + P_KING >>, << Sq(2, 3), BLACK + P_KING >>,
      << Sq(1, 8), RED + P_ROOK >> }

HorseRoot ==
    { << Sq(9, 4), RED + P_KING >>, << Sq(0, 3), BLACK + P_KING >>,
      << Sq(2, 3), RED + P_HORSE >> }

PawnRoot ==
    { << Sq(9, 4), RED + P_KING >>, << Sq(0, 3), BLACK + P_KING >>,
      << Sq(3, 4), RED + P_PAWN >> }

RooksRoot ==
    { << Sq(9, 4), RED + P_KING >>, << Sq(0, 3), BLACK + P_KING >>,
      << Sq(3, 0), RED + P_ROOK >>, << Sq(4, 0), RED + P_ROOK >>,
      << Sq(8, 4), RED + P_CANNON >>,
      << Sq(6, 5), BLACK + P_ROOK >>, << Sq(2, 3), BLACK + P_ROOK >>,
      << Sq(5, 3), BLACK + P_CANNON >> }

MiddlegameRoot ==
    { << Sq(9, 4), RED + P_KING >>, << Sq(0, 3), BLACK + P_KING >>,
      << Sq(7, 5), RED + P_ROOK >>, << Sq(7, 0), RED + P_ROOK >>,
      << Sq(0, 1), RED + P_CANNON >>, << Sq(8, 8), RED + P_CANNON >>,
      << Sq(6, 7), RED + P_HORSE >>, << Sq(4, 1), RED + P_HORSE >>,
      << Sq(3, 7), RED + P_PAWN >>,
      << Sq(1, 7), BLACK + P_ROOK >>, << Sq(5, 1), BLACK + P_ROOK >>,
      << Sq(7, 8), BLACK + P_CANNON >>, << Sq(3, 0), BLACK + P_CANNON >>,
      << Sq(5, 5), BLACK + P_HORSE >>, << Sq(2, 0), BLACK + P_HORSE >>,
      << Sq(3, 5), BLACK + P_PAWN >> }

QueryTables ==
    { MateRoot, BackRankRoot, StalemateRoot, HorseRoot, PawnRoot, RooksRoot,
      MiddlegameRoot }

NextQuery ==
    \/ StartQuery("getBestMoveWorld", QueryTables, {"Beginner"})
    \/ SearchEnter
    \/ SearchNullReturn
    \/ SearchLoop
    \/ SearchMade
    \/ SearchChildReturn
    \/ QuiesEnter
    \/ QuiesLoop
    \/ QuiesMade
    \/ QuiesChildReturn
    \/ IterationReturn
    \/ FinishQuery
    \/ Reset

SpecQuery == InitGen /\ [][NextQuery]_vars

\* getBestMove, the entry point the application calls, on the Engine behind
\* it.
NextEngine ==
    \/ StartQuery("getBestMove", { MateRoot, PawnRoot }, {"Intermediate"})
    \/ StartQuery("getBestMove", { MiddlegameRoot }, {"Beginner"})
    \/ SearchEnter
    \/ SearchNullReturn
    \/ SearchLoop
    \/ SearchMade
    \/ SearchChildReturn
    \/ QuiesEnter
    \/ QuiesLoop
    \/ QuiesMade
    \/ QuiesChildReturn
    \/ IterationReturn
    \/ FinishQuery

SpecEngine == InitGen /\ [][NextEngine]_vars

\* PawnRoot with the pawn on the twin square (3,8).
TwinRoot ==
    { << Sq(9, 4), RED + P_KING >>, << Sq(0, 3), BLACK + P_KING >>,
      << TwinSquare, RED + P_PAWN >> }

\* Two queries in a row on one engine whose key table makes their roots
\* collide: the table filled by the first is what the second finds.
NextCollide ==
    \/ query.n = 0 /\ BeginQuery("getBestMoveWorld", { PawnRoot }, {"Beginner"})
    \/ query.n = 1 /\ BeginQuery("getBestMoveWorld", { TwinRoot }, {"Beginner"})
    \/ SearchEnter
    \/ SearchNullReturn
    \/ SearchLoop
    \/ SearchMade
    \/ SearchChildReturn
    \/ QuiesEnter
    \/ QuiesLoop
    \/ QuiesMade
    \/ QuiesChildReturn
    \/ IterationReturn
    \/ FinishQuery

SpecCollide == InitAt(CollidingSeed) /\ app = AppConstructed /\ [][NextCollide]_vars

(* ------------------------------------------------------------------ *)
(* The movement rules of Xiangqi, stated on squares                    *)
(* ------------------------------------------------------------------ *)
OnBoardSquare(sq) == sq \in AllSquares

OwnPalace(color, sq) ==
    ColOf(sq) \in 3 .. 5 /\ (IF color = RED THEN RowOf(sq) \in 7 .. 9 ELSE RowOf(sq) \in 0 .. 2)

\* The squares strictly between two squares of one row or one column.
SquaresBetween(from, to) ==
    IF RowOf(from) = RowOf(to)
    THEN { Sq(RowOf(from), c) : c \in { x \in 0 .. 8 :
              (ColOf(from) < x /\ x < ColOf(to)) \/ (ColOf(to) < x /\ x < ColOf(from)) } }
    ELSE { Sq(r, ColOf(from)) : r \in { x \in 0 .. 9 :
              (RowOf(from) < x /\ x < RowOf(to)) \/ (RowOf(to) < x /\ x < RowOf(from)) } }

PiecesBetween(b, from, to) == Cardinality({ sq \in SquaresBetween(from, to) : b[sq] # 0 })

\* The move from -> to obeys the movement rule of the piece on from.
ObeysRule(b, from, to) ==
    LET p == b[from]
        color == ColorOf(p)
        type == TypeOf(p)
        dr == RowOf(to) - RowOf(from)
        dc == ColOf(to) - ColOf(from)
        lined == (dr = 0) # (dc = 0)
    IN IF type = P_KING THEN Abs(dr) + Abs(dc) = 1 /\ OwnPalace(color, to)
       ELSE IF type = P_ADVISOR THEN Abs(dr) = 1 /\ Abs(dc) = 1 /\ OwnPalace(color, to)
       ELSE IF type = P_ELEPHANT
            THEN /\ Abs(dr) = 2 /\ Abs(dc) = 2
                 /\ b[Sq(RowOf(from) + dr \div 2, ColOf(from) + dc \div 2)] = 0
                 /\ (IF color = RED THEN RowOf(to) >= 5 ELSE RowOf(to) <= 4)
       ELSE IF type = P_HORSE
            THEN \/ Abs(dr) = 2 /\ Abs(dc) = 1 /\ b[Sq(RowOf(from) + dr \div 2, ColOf(from))] = 0
                 \/ Abs(dr) = 1 /\ Abs(dc) = 2 /\ b[Sq(RowOf(from), ColOf(from) + dc \div 2)] = 0
       ELSE IF type = P_ROOK THEN lined /\ PiecesBetween(b, from, to) = 0
       ELSE IF type = P_CANNON
            THEN lined /\ PiecesBetween(b, from, to) = (IF b[to] = 0 THEN 0 ELSE 1)
       ELSE IF type = P_PAWN
            THEN LET forward == IF color = RED THEN -1 ELSE 1
                     crossed == IF color = RED THEN RowOf(from) <= 4 ELSE RowOf(from) >= 5
                 IN \/ dr = forward /\ dc = 0
                    \/ crossed /\ dr = 0 /\ Abs(dc) = 1
       ELSE FALSE

\* The two kings stand on one file with no piece between them.
KingsFacing(b, redKing, blackKing) ==
    ColOf(redKing) = ColOf(blackKing) /\ PiecesBetween(b, redKing, blackKing) = 0

\* A sound pseudo-legal move of side t: on the board, a piece of t, not onto
\* an own piece, and within the rule of that piece.
SoundMove(b, t, m) ==
    /\ m >= 0
    /\ OnBoardSquare(MoveFrom(m))
    /\ OnBoardSquare(MoveTo(m))
    /\ b[MoveFrom(m)] # 0
    /\ ColorOf(b[MoveFrom(m)]) = t
    /\ ColorOf(b[MoveTo(m)]) # t
    /\ ObeysRule(b, MoveFrom(m), MoveTo(m))

(* ------------------------------------------------------------------ *)
(* Claims                                                              *)
(* ------------------------------------------------------------------ *)

\* The side that moved at P is not in check after move: the legality filter
\* applied by search to every generated move.
PassesFilter(P, move) ==
    LET A == makeMove(zseed, P, move).pos
    IN ~isKingInCheck(A.board, A.redKingPos, A.blackKingPos, P.turn)

\* Some generated move of the side to move at P passes the legality filter.
HasLegalMove(P) ==
    \E m \in SeqToSet(generateMoves(P.board, P.turn, FALSE)) : PassesFilter(P, m)

\* The Move mv, as returned to the caller, names two squares of the board,
\* moves a piece of the side to move at P and leaves that side's king out of
\* check.
LegalReturn(P, mv) ==
    /\ mv.from.r \in 0 .. 9 /\ mv.from.c \in 0 .. 8
    /\ mv.to.r \in 0 .. 9 /\ mv.to.c \in 0 .. 8
    /\ P.board[Sq(mv.from.r, mv.from.c)] # 0
    /\ ColorOf(P.board[Sq(mv.from.r, mv.from.c)]) = P.turn
    /\ PassesFilter(P, EncodeMove(Sq(mv.from.r, mv.from.c), Sq(mv.to.r, mv.to.c)))

\* C1: for every board with one king per colour and every query (completed,
\* aborted, or answered by the fallback), the move returned by
\* getBestMoveWorld is a move of a piece of the side to move after which the
\* mover's own king is not in check, the facing of the two kings included.
C1_ReturnedMoveLegal ==
    (query.pc = "done" /\ query.result.kind = "move")
        => LegalReturn(query.root, query.result.move)

\* C2: for every root position in which no generated move of the side to move
\* passes the legality filter, getBestMoveWorld returns null.
C2_NullWithoutLegalMove ==
    (query.pc = "done" /\ ~HasLegalMove(query.root)) => query.result.kind = "null"

\* C3: when iterative deepening ends with no recorded best move and the side
\* to move has a legal move, the result is not null, its score is 0 and its
\* move is one of the generated moves that pass the legality filter.
C3_FallbackMoveLegal ==
    (query.pc = "done" /\ query.result.fallback /\ HasLegalMove(query.root))
        => /\ query.result.kind = "move"
           /\ query.result.score = 0
           /\ PassesFilter(query.root, query.result.raw)

\* The moves of generateMoves(false) that the legality filter of search keeps,
\* as pairs of squares.
EngineLegalMoves(P) ==
    { << MoveFrom(m), MoveTo(m) >> :
        m \in { x \in SeqToSet(generateMoves(P.board, P.turn, FALSE)) : PassesFilter(P, x) } }

\* C11: the legal moves of the UI helper (all (from, to) with to in
\* getLegalMovesForPiece(board, from, side)) are the engine moves from that
\* square that survive the legality filter of search.
C11_HelperAgreesWithEngine ==
    probe.op = "getLegalMovesForPiece"
        => { << probe.from, to >> : to \in SeqToSet(probe.moves) }
             = { mv \in EngineLegalMoves(Pos) : mv[1] = probe.from }

\* The query is between its first call of search and its return.
InQuery == query.pc \in {"search", "research", "finish"}

LastRecorded == query.recorded[Len(query.recorded)]

\* C12: if the deadline aborts iteration d+1 after iteration d completed and
\* recorded a move, the move and the score returned are those recorded after
\* iteration d.
C12_AbortReturnsLastComplete ==
    (query.pc = "done" /\ abort /\ query.recorded # << >>)
        => (LastRecorded.d + 1 = query.d
              => /\ query.result.kind = "move"
                 /\ ~query.result.fallback
                 /\ query.result.raw = LastRecorded.move
                 /\ query.result.score = LastRecorded.score)

\* A query has returned whose third iteration was aborted after the second
\* had recorded a move.
C12_AbortedAfterRecorded ==
    /\ query.pc = "done"
    /\ abort
    /\ query.recorded # << >>
    /\ query.d = 3
    /\ LastRecorded.d = 2
    /\ nodes < 4096

\* C13: once abort is set during a query no tt.set is executed for the rest
\* of that query.
C13_NoStoreAfterAbort ==
    [][(InQuery /\ (abort \/ abort')) => tt' = tt]_vars

\* Abort is set and a search frame that has searched a legal move, with
\* entries already in the table, is about to return.
C13_AbortInsideMoveLoop ==
    /\ abort
    /\ tt # {}
    /\ Len(frames) >= 2
    /\ Top.fn = "search"
    /\ Top.pc = "child"
    /\ Top.legalMoves > 0

\* The running call returns its alpha.
ReturnsAlpha ==
    /\ frames' = SubSeq(frames, 1, Len(frames) - 1)
    /\ ret' = Top.alpha

\* The running call searches the move in hand once more (the re-searches of
\* PVS and LMR, decided before the abort test): no move is made.
SearchesSameMoveAgain ==
    /\ Top.fn = "search"
    /\ Top.pc = "child"
    /\ Len(frames') = Len(frames) + 1
    /\ frames'[Len(frames')].pc = "enter"
    /\ frames'[Len(frames)].move = Top.move
    /\ Pos' = Pos

\* C14: within one query abort, once true, stays true until the query
\* returns, and every search or quiescence frame that observes abort returns
\* its current alpha without searching further moves.
C14_AbortSticky ==
    [][/\ (abort /\ InQuery) => abort'
       /\ (abort' /\ InQuery /\ frames # << >>) => (ReturnsAlpha \/ SearchesSameMoveAgain)]_vars

\* Abort is set while a quiescence frame below three or more frames waits
\* for a capture to return.
C14_AbortDeepInQuiescence ==
    /\ abort
    /\ Len(frames) >= 4
    /\ Top.fn = "quiescence"
    /\ Top.pc = "child"

\* C15: the clock is read at every node count that is a multiple of 2048,
\* nodes of search and of quiescence alike: when the clock was past stopTime
\* at such a count (the deadline passed within the 2048 nodes before it), no
\* further node is counted before abort is set.
C15_AbortWithin2048 ==
    (query.lateAt # 0 /\ nodes > query.lateAt) => abort

\* The step makes the next move of a move loop: a new subtree is started.
StartsSubtree ==
    /\ frames # << >>
    /\ Top.pc = "loop"
    /\ Len(frames') = Len(frames)
    /\ frames'[Len(frames')].pc = "made"

\* C16: once the clock was found past stopTime at a multiple of 2048 nodes,
\* the calls on the stack unwind: no step of the query starts a new subtree.
C16_UnwindsAfterDeadline ==
    [][(InQuery /\ query.lateAt # 0) => ~StartsSubtree]_vars

\* The number of pieces on the board.
PieceCount(b) == Cardinality({ i \in Slots : b[i] # 0 })

\* C17: every move that quiescence makes takes one piece off the board.
C17_QuiescenceMovesCapture ==
    [][(frames # << >> /\ Top.fn = "quiescence" /\ StartsSubtree)
          => PieceCount(board') = PieceCount(board) - 1]_vars

\* C18: a query runs with the depth and the time limit (ms) of its
\* difficulty, Beginner (3, 800), Intermediate (5, 1500), Expert (7, 2500),
\* Master (10, 4000), Grandmaster (24, 6000), whichever entry point was
\* called, and no iteration is deeper than maxDepth.
C18_DifficultyTable ==
    query.pc # "idle" =>
        /\ << query.maxDepth, query.timeLimit >> =
              CASE query.difficulty = "Beginner" -> << 3, 800 >>
                [] query.difficulty = "Intermediate" -> << 5, 1500 >>
                [] query.difficulty = "Expert" -> << 7, 2500 >>
                [] query.difficulty = "Master" -> << 10, 4000 >>
                [] query.difficulty = "Grandmaster" -> << 24, 6000 >>
        /\ query.d <= query.maxDepth

\* The legal moves of side on the board ub by the rules of the helper, as
\* pairs << from, to >>.
LegalMovesUI(ub, side) ==
    { << from, to >> \in AllSquares \X AllSquares :
        /\ ub[from] # 0
        /\ ColorOf(ub[from]) = side
        /\ to \in SeqToSet(getLegalMovesForPiece(ub, from, side)) }

\* The moves of side after which the opponent is in check and has no legal
\* reply.
MatingMoves(ub, side) ==
    { m \in LegalMovesUI(ub, side) :
        LET nb == makeMoveUI(ub, m[1], m[2])
        IN isKingInCheckUI(nb, Opp(side)) /\ LegalMovesUI(nb, Opp(side)) = {} }

\* C19: a query that was not aborted, on a root with a mate in one, with
\* maxDepth >= 2 and the table empty at its start, returns a mating move with
\* a score above 15000, and no iteration follows the first one that scored
\* above 15000.
C19_MateInOneReturned ==
    (/\ query.pc = "done"
     /\ ~abort
     /\ query.maxDepth >= 2
     /\ MatingMoves(BoardState(query.root.board), query.root.turn) # {})
    => /\ query.result.kind = "move"
       /\ << MoveFrom(query.result.raw), MoveTo(query.result.raw) >>
             \in MatingMoves(BoardState(query.root.board), query.root.turn)
       /\ query.result.score > 15000
       /\ \A k \in 1 .. (Len(query.recorded) - 1) : query.recorded[k].score <= 15000

\* The table holds, under the hash of the root of the running query, an
\* entry that an earlier query stored for another position: the query began
\* with an entry under its root hash, and no position with a piece on the twin
\* square was searched before (C20_TwinNeverSearched).
RootCollision ==
    /\ query.n = 2
    /\ query.hit
    /\ query.root.board[TwinSquare] # 0

\* No position of the first query has a piece on the twin square.
C20_TwinNeverSearched == query.n < 2 => board[TwinSquare] = 0

\* The move made by this step is one that generateMoves gives for the
\* position it is made in.
MakesGeneratedMove ==
    frames'[Len(frames')].move
        \in SeqToSet(generateMoves(board, turn, Top.fn = "quiescence"))

\* C20: with a colliding entry under the hash of the root, search makes only
\* moves generated for the position in hand.
C20_CollisionMovesGenerated ==
    [][(RootCollision /\ StartsSubtree) => MakesGeneratedMove]_vars

\* C20: with a colliding entry under the hash of the root, the move the query
\* returns is a legal move of the root.
C20_CollisionReturnLegal ==
    (RootCollision /\ query.pc = "done" /\ query.result.kind = "move")
        => LegalReturn(query.root, query.result.move)

\* The position the walk started from.
RootPos == IF stack = <<>> THEN Pos ELSE stack[1].before

\* The step takes the innermost move back.
UndoStep ==
    /\ stack # <<>>
    /\ ~stack[Len(stack)].null
    /\ stack' = SubSeq(stack, 1, Len(stack) - 1)

\* C4: makeMove(m) followed by undoMove(m, captured), for every move m of
\* generateMoves, restores the 256-slot board, redKingPos, blackKingPos, the
\* side to move and currentHash to exactly their values before makeMove.
C4_MakeUndoRestores ==
    [][UndoStep => Pos' = stack[Len(stack)].before]_vars

\* A king has captured a piece two plies into a walk and undoMove is to take
\* the capture back.
C4_KingCaptureToUndo ==
    /\ Len(stack) = 2
    /\ ~stack[2].null
    /\ stack[2].captured # 0
    /\ TypeOf(Read(board, MoveTo(stack[2].move))) = P_KING
    /\ Pos # stack[2].before

\* C5: in every state reachable from loadBoard by makeMove / undoMove of
\* generated moves, null-move turn switches and reset(), currentHash equals
\* the hash recomputed from scratch.
C5_HashMatchesRecompute ==
    loaded => currentHash = recomputeHash(zseed, board, turn)

\* board[redKingPos] is the Red king, board[blackKingPos] is the Black king,
\* and no other slot holds a king.
KingsTracked ==
    /\ Read(board, redKingPos) = RED + P_KING
    /\ Read(board, blackKingPos) = BLACK + P_KING
    /\ \A sq \in Slots : TypeOf(board[sq]) = P_KING => sq \in {redKingPos, blackKingPos}

\* C6: from a loaded board with exactly one king per colour, in every state
\* reached by makeMove / undoMove of generated moves, board[redKingPos] is the
\* Red king, board[blackKingPos] is the Black king, and no other square holds
\* a king of that colour.
C6_KingsTracked ==
    loaded => KingsTracked

\* C6 as amended: the same, from a loaded board on which the side that is not
\* to move is not in check.
C6_KingsTrackedFromQuietRoot ==
    (loaded /\ ~isKingInCheck(RootPos.board, RootPos.redKingPos,
                              RootPos.blackKingPos, Opp(RootPos.turn)))
        => KingsTracked

\* Both kings have moved off their loaded squares.
C6_BothKingsMoved ==
    /\ loaded
    /\ ~isKingInCheck(RootPos.board, RootPos.redKingPos,
                       RootPos.blackKingPos, Opp(RootPos.turn))
    /\ redKingPos # RootPos.redKingPos
    /\ blackKingPos # RootPos.blackKingPos

\* C7: in every state reachable from loadBoard by makeMove / undoMove of
\* generated moves, every board slot that is not a valid square holds 0.
C7_OffBoardSlotsZero ==
    \A sq \in Slots : ~ValidSquare(sq) => board[sq] = 0

\* C8: every move emitted by generateMoves(false) has on-board from and to
\* squares, moves a piece of the side to move onto a square not occupied by an
\* own piece, and satisfies the movement rule of its piece type (king and
\* advisor destinations inside the own palace).
C8_GeneratedMovesSound ==
    (probe.op = "generateMoves" /\ ~probe.captureOnly)
        => \A m \in SeqToSet(probe.moves) : SoundMove(board, turn, m)

\* C9: isKingInCheck(s) is true if and only if generateMoves for the opponent
\* of s contains a move whose destination is the square of s's king.
KingOf(side) == IF side = RED THEN redKingPos ELSE blackKingPos

CanCaptureKing(side) ==
    \E m \in SeqToSet(generateMoves(board, Opp(side), FALSE)) : MoveTo(m) = KingOf(side)

C10_CaptureOnlyExact ==
    (probe.op = "generateMoves" /\ probe.captureOnly)
        => LET caps == SeqToSet(probe.moves)
               all == SeqToSet(generateMoves(board, turn, FALSE))
           IN /\ caps \subseteq all
              /\ \A m \in caps :
                    m >= 0 /\ ColorOf(Read(board, MoveTo(m))) = Opp(turn)
              /\ \A m \in all :
                    (m >= 0 /\ ColorOf(Read(board, MoveTo(m))) = Opp(turn)) => m \in caps

(* ------------------------------------------------------------------ *)
(* The values search returns                                           *)
(* ------------------------------------------------------------------ *)
\* The step is a return of a call of search: of the root call, or of a call a
\* search frame made (the call may have ended in quiescence).
SearchReturns ==
    /\ frames # << >>
    /\ Len(frames') = Len(frames) - 1
    /\ IF Len(frames) = 1 THEN TRUE ELSE frames[Len(frames) - 1].fn = "search"

\* C21: every value search returns, on every return path, the abort return
\* among them, lies in [-20000, 20000].
C21_SearchReturnInRange ==
    [][SearchReturns => ret' \in -20000 .. 20000]_vars

\* C21 as amended: every value search returns lies in [-30000, 30000], the
\* bounds of the first window (quiescence returns a bound of the window it
\* was given, an aborted call its alpha); the value the root call of an
\* iteration returns while abort is not set lies in [-20000, 20000].
C21_ReturnInWindowRange ==
    [][SearchReturns
         => /\ ret' \in -30000 .. 30000
            /\ (Len(frames) = 1 /\ ~abort') => ret' \in -20000 .. 20000]_vars

\* A call the root frame made with the window (29999, 30000) has run into
\* quiescence and returned its alpha, with abort not set.
C21_WindowBoundReturned ==
    /\ ~abort
    /\ Len(frames) = 1
    /\ Top.pc = "child"
    /\ Top.alpha = -30000
    /\ ret = 29999

(* ------------------------------------------------------------------ *)
(* reset() and the tables across queries                               *)
(* ------------------------------------------------------------------ *)
\* The step is a call of reset(): between queries, with no move made, and
\* neither a board loaded nor a query begun or ended by it.
ResetStep ==
    /\ query.pc \in {"idle", "done"}
    /\ stack = << >>
    /\ << board, turn, redKingPos, blackKingPos, loaded, stack, probe, query, frames >>'
          = << board, turn, redKingPos, blackKingPos, loaded, stack, probe, query, frames >>

\* C22: immediately after reset() the transposition table is empty, every
\* history entry is 0, both killer slots of every ply are 0, the keys are
\* those of the new draw and currentHash is the hash of the board and turn
\* recomputed under them.
C22_ResetClears ==
    [][ResetStep
         => /\ tt' = {}
            /\ \A m \in DOMAIN historyTable' : historyTable'[m] = 0
            /\ \A p \in 0 .. (MAX_PLY - 1) : killers'[p] = << 0, 0 >>
            /\ zseed' \in Seeds
            /\ currentHash' = recomputeHash(zseed', board', turn')]_vars

\* reset() has been called after a query that recorded a move and left a
\* killer: the tables are empty and the hash is no longer the one the query
\* began with.
C22_ResetAfterQuery ==
    /\ query.pc = "done"
    /\ query.recorded # << >>
    /\ tt = {}
    /\ historyTable = << >>
    /\ killers = NoKillers
    /\ currentHash # query.root.currentHash

\* C23: starting a query (loadBoard and the prologue of getBestMoveWorld)
\* leaves the transposition table, the history table and the killers as they
\* are, and so does the return of the query before it: what one query stored
\* is there when the next begins, unless reset() was called in between.
C23_QueryStartKeepsTables ==
    [][(query.pc \in {"idle", "finish", "done"} /\ ~ResetStep)
         => /\ tt' = tt
            /\ historyTable' = historyTable
            /\ killers' = killers]_vars

\* The second query is about to search its root with the entries, the
\* history and the killers of the first in place.
C23_SecondQueryOnWarmTables ==
    /\ query.n = 2
    /\ query.pc = "search"
    /\ nodes = 0
    /\ query.hit
    /\ Cardinality(tt) >= 2
    /\ historyTable # << >>
    /\ killers # NoKillers

(* ------------------------------------------------------------------ *)
(* App: the handlers of the component and the AI move effect           *)
(* ------------------------------------------------------------------ *)
engineVars == << posVars, zseed, loaded, stack, probe, searchVars >>

\* Bounds of the App model: the calls of executeMove and the callbacks of
\* the AI move effect in one run, the squares that are clicked, the scores
\* getBestMove reports.
MaxPlies == 3
MaxAiTurns == 2
ClickSquares ==
    { Sq(9, 1), Sq(9, 2), Sq(7, 4), Sq(8, 3), Sq(9, 4), Sq(8, 4), Sq(1, 8), Sq(1, 3) }
ScoreSamples == { 120 }

\* What pushHistory captures from the render r.
Snapshot(r) ==
    [board |-> r.board, turn |-> r.turn, lastMove |-> r.lastMove, status |-> r.status,
     moveHistory |-> r.moveHistory, evalScore |-> r.evalScore]

\* pushHistory() of the render r, on the state a.
pushHistory(a, r) == [a EXCEPT !.historyStack = Append(@, Snapshot(r))]

\* board[p.r][p.c] in a row of the board; outside the nine columns the read
\* gives undefined, which counts as no piece.
PieceAt(ub, p) == IF p.c \in 0 .. 8 THEN ub[Sq(p.r, p.c)] ELSE 0

HasKing(ub, side) == \E sq \in AllSquares : ub[sq] = side + P_KING

\* executeMove(move) of the render r, on the state a: the updater of setBoard
\* works on the board of a and takes the turn from r; setMoveHistory reads
\* the board of r. A row outside the board throws in an updater, and the
\* component is gone (status "crashed").
executeMove(a, r, move) ==
    LET piece == PieceAt(a.board, move.from)
        newBoard == [sq \in AllSquares |->
                       IF sq = Sq(move.from.r, move.from.c) THEN 0
                       ELSE IF move.to.c \in 0 .. 8 /\ sq = Sq(move.to.r, move.to.c) THEN piece
                       ELSE a.board[sq]]
        nextTurn == Opp(r.turn)
        moved == [a EXCEPT !.board = newBoard,
                           !.isCheck = isKingInCheckUI(newBoard, nextTurn),
                           !.status = IF ~HasKing(newBoard, RED) THEN "black_win"
                                      ELSE IF ~HasKing(newBoard, BLACK) THEN "red_win"
                                      ELSE @,
                           !.turn = nextTurn]
        a1 == IF piece = 0 THEN a ELSE moved
        rpiece == PieceAt(r.board, move.from)
        rtarget == PieceAt(r.board, move.to)
        record == [side |-> ColorOf(rpiece), from |-> move.from, to |-> move.to,
                   captured |-> rtarget # 0]
    IN IF move.from.r \notin 0 .. 9 \/ move.to.r \notin 0 .. 9
       THEN [a EXCEPT !.status = "crashed"]
       ELSE [a1 EXCEPT !.lastMove = << move >>,
                       !.moveHistory = IF rpiece = 0 THEN @ ELSE << record >> \o @,
                       !.plies = @ + 1]

PositionOf(sq) == [r |-> RowOf(sq), c |-> ColOf(sq)]

\* handleSquareClick(pos): a piece of the player is selected with its legal
\* moves; with a selection, a square of validMoves is moved to and any other
\* square drops the selection.
HandleSquareClick ==
    /\ app.status = "playing"
    /\ app.turn = app.playerSide
    /\ app.plies < MaxPlies
    /\ \E pos \in ClickSquares :
          LET a == app
              clickedPiece == a.board[pos]
          IN IF clickedPiece # 0 /\ ColorOf(clickedPiece) = a.playerSide
             THEN app' = [a EXCEPT !.selectedPos = << PositionOf(pos) >>,
                                   !.validMoves = getLegalMovesForPiece(a.board, pos,
                                                                        a.playerSide),
                                   !.last = "select"]
             ELSE IF a.selectedPos = << >>
             THEN app' = [a EXCEPT !.last = "click"]
             ELSE IF pos \in SeqToSet(a.validMoves)
             THEN app' = [executeMove(pushHistory([a EXCEPT !.pushedBy =
                                                                Append(@, "player")], a), a,
                                      [from |-> a.selectedPos[1], to |-> PositionOf(pos)])
                            EXCEPT !.selectedPos = << >>, !.validMoves = << >>,
                                   !.last = "move"]
             ELSE app' = [a EXCEPT !.selectedPos = << >>, !.validMoves = << >>,
                                   !.last = "deselect"]
    /\ UNCHANGED engineVars

\* A click on the undo button, which is disabled with fewer than two
\* snapshots, on the AI's turn and when the game is over: performUndo().
PerformUndo ==
    /\ app.status = "playing"
    /\ app.turn = app.playerSide
    /\ Len(app.historyStack) >= 2
    /\ LET a == app
           n == Len(a.historyStack)
           targetState == a.historyStack[n - 1]
       IN app' = IF a.isThinking
                 THEN [a EXCEPT !.last = "undo"]
                 ELSE [a EXCEPT !.board = targetState.board,
                                !.turn = targetState.turn,
                                !.lastMove = targetState.lastMove,
                                !.status = targetState.status,
                                !.moveHistory = targetState.moveHistory,
                                !.evalScore = targetState.evalScore,
                                !.historyStack = SubSeq(a.historyStack, 1, n - 2),
                                !.pushedBy = SubSeq(a.pushedBy, 1, n - 2),
                                !.isCheck = FALSE,
                                !.last = "undo"]
    /\ UNCHANGED engineVars

\* resetGame(newSide), newSide 0 for the call without argument: everything
\* but isThinking is set anew; a callback in flight goes on.
ResetGame ==
    /\ app.status # "crashed"
    /\ \E newSide \in {0, RED, BLACK} :
          app' = [AppOn(createInitialBoard, RED,
                        IF newSide # 0 THEN newSide ELSE app.playerSide)
                    EXCEPT !.isThinking = app.isThinking, !.flight = app.flight,
                           !.plies = app.plies, !.aiTurns = app.aiTurns,
                           !.last = "reset"]
    /\ UNCHANGED engineVars

\* The timer of the AI move effect fires: the callback starts with the values
\* of the render that set the timer. A change of those values before the
\* timer fires sets it anew, so the render is the current state.
AiStart ==
    /\ app.status = "playing"
    /\ app.turn = Opp(app.playerSide)
    /\ app.flight = << >>
    /\ app.plies < MaxPlies
    /\ app.aiTurns < MaxAiTurns
    /\ app' = [app EXCEPT !.isThinking = TRUE,
                          !.aiTurns = @ + 1,
                          !.flight = << [render |-> Snapshot(app),
                                         aiSide |-> Opp(app.playerSide)] >>,
                          !.last = "aiStart"]
    /\ UNCHANGED engineVars

\* The table loadBoard reads from the BoardState ub.
TableOfBoard(ub) == { << sq, ub[sq] >> : sq \in { x \in AllSquares : ub[x] # 0 } }

\* The files whose pieces the explored answers of getBestMove move, when
\* one of them has a legal move.
AiFiles == { 0 }

\* What getBestMove(ub, side, ...) may return: the move of the root entry, a
\* generated move that passed the filter of search, with some score; with
\* no such move a move drawn from generateMoves() with score 0; null when
\* nothing is generated.
AiResults(ub, side) ==
    LET P == loadBoardEngine(EmptyPos, TableOfBoard(ub), side)
        gen == SeqToSet(generateMoves(P.board, P.turn, FALSE))
        legal == { m \in gen : PassesFilter(P, m) }
        onFiles == { m \in legal : FinalMove(m).from.c \in AiFiles }
    IN IF legal # {}
       THEN { [kind |-> "move", move |-> FinalMove(m), score |-> s] :
                  m \in (IF onFiles # {} THEN onFiles ELSE legal), s \in ScoreSamples }
       ELSE IF gen # {}
       THEN { [kind |-> "move", move |-> FinalMove(m), score |-> 0] : m \in gen }
       ELSE { [kind |-> "null", move |-> FinalMove(0), score |-> 0] }

\* The callback of the AI move effect after its awaits: the result of
\* getBestMove on the board of its render is applied to the state as it is
\* now, or the game is declared over.
AiFinish ==
    /\ app.status # "crashed"
    /\ app.flight # << >>
    /\ LET f == app.flight[1]
           r == f.render
           a == [app EXCEPT !.isThinking = FALSE, !.flight = << >>]
       IN \E result \in AiResults(r.board, f.aiSide) :
             app' = IF result.kind = "move"
                    THEN [executeMove(
                             pushHistory([a EXCEPT !.evalScore =
                                            IF f.aiSide = RED THEN result.score
                                            ELSE -result.score,
                                          !.pushedBy = Append(@, "ai")], r),
                             r, result.move)
                            EXCEPT !.last = "aiMove"]
                    ELSE [a EXCEPT !.status =
                                      IF isKingInCheckUI(r.board, f.aiSide)
                                      THEN (IF f.aiSide = RED THEN "black_win" ELSE "red_win")
                                      ELSE "stalemate",
                                   !.last = "aiNull"]
    /\ UNCHANGED engineVars

\* Black mates in one, the Red king on row 8: the rook of (5,0) to (8,0).
RookMateRoot ==
    { << Sq(8, 4), RED + P_KING >>, << Sq(0, 3), BLACK + P_KING >>,
      << Sq(5, 0), BLACK + P_ROOK >>, << Sq(7, 8), BLACK + P_ROOK >>,
      << Sq(9, 8), BLACK + P_ROOK >> }

\* Games in progress: the board and the side to move, the player Red.
AppGames == { << RookMateRoot, BLACK >>, << StalemateRoot, BLACK >> }

AppStarts ==
    { AppConstructed }
      \cup { AppOn(BoardState(BoardOfTable(g[1])), g[2], RED) : g \in AppGames }

InitApp == InitAt(1) /\ app \in AppStarts

NextApp ==
    \/ HandleSquareClick
    \/ PerformUndo
    \/ ResetGame
    \/ AiStart
    \/ AiFinish

SpecApp == InitApp /\ [][NextApp]_vars

(* ------------------------------------------------------------------ *)
(* Claims on the App                                                   *)
(* ------------------------------------------------------------------ *)
\* The last handler was a click that called executeMove for a square that
\* held a piece: the snapshot on top of the stack is the board it was
\* applied to.
PlayerMoved ==
    /\ app.last = "move"
    /\ PieceAt(app.historyStack[Len(app.historyStack)].board, app.lastMove[1].from) # 0

\* C24: after any sequence of square clicks, undo and new-game actions, a
\* move the App applies on the player's turn moves a piece of playerSide and
\* is one of getLegalMovesForPiece on the board it is applied to.
C24_PlayerMovesLegal ==
    PlayerMoved
      => LET ub == app.historyStack[Len(app.historyStack)].board
             move == app.lastMove[1]
             from == Sq(move.from.r, move.from.c)
         IN /\ ColorOf(ub[from]) = app.playerSide
            /\ Sq(move.to.r, move.to.c)
                  \in SeqToSet(getLegalMovesForPiece(ub, from, app.playerSide))

\* A click on the undo button.
UndoPressed == app'.last = "undo" /\ app' # app

\* The snapshot the player's most recent move pushed is the last but one.
PlayerSnapshotBelowTop ==
    LET n == Len(app.pushedBy)
    IN n >= 2 /\ app.pushedBy[n - 1] = "player" /\ app.pushedBy[n] = "ai"

\* C25: performUndo on the player's turn with two snapshots or more and the
\* AI not thinking restores board, turn, lastMove, status, moveHistory and
\* evalScore to the snapshot pushed just before the player's most recent
\* move and removes exactly two snapshots, after which it is the player's
\* turn with status PLAYING; while thinking it changes nothing.
C25_UndoRestoresPlayerSnapshot ==
    [][UndoPressed
         => LET n == Len(app.historyStack)
                s == app.historyStack[n - 1]
            IN IF app.isThinking
               THEN app' = [app EXCEPT !.last = "undo"]
               ELSE /\ PlayerSnapshotBelowTop
                    /\ Snapshot(app') = s
                    /\ app'.historyStack = SubSeq(app.historyStack, 1, n - 2)
                    /\ app'.turn = app'.playerSide
                    /\ app'.status = "playing"]_vars

\* No piece of side has a legal move on the board ub.
NoLegalMove(ub, side) ==
    \A from \in AllSquares :
       (ub[from] # 0 /\ ColorOf(ub[from]) = side)
         => getLegalMovesForPiece(ub, from, side) = << >>

WinOf(side) == IF side = RED THEN "red_win" ELSE "black_win"

\* C26: when the side to move has no legal move, checkmated or blocked, the
\* game leaves PLAYING with the other side the winner. Stated at the end of
\* the AI's turn: an AI that had no legal move has lost, and the game is not
\* left in PLAYING with the player to move and without a legal move.
C26_NoLegalMoveEndsGame ==
    [][(app.flight # << >> /\ app'.flight = << >>)
         => LET f == app.flight[1]
            IN /\ NoLegalMove(f.render.board, f.aiSide)
                    => app'.status = WinOf(Opp(f.aiSide))
               /\ (app'.status = "playing" /\ app'.turn = app'.playerSide)
                    => ~NoLegalMove(app'.board, app'.turn)]_vars

(* ------------------------------------------------------------------ *)
(* The cannon on crowded lines                                         *)
(* ------------------------------------------------------------------ *)
\* Boards with a cannon on row 5 or on file 1 and up to MaxLinePieces
\* horses of either colour on the same line.
MaxLinePieces == 3

CannonLines ==
    { { Sq(5, c) : c \in 0 .. 8 }, { Sq(r, 1) : r \in 0 .. 9 } }

CannonSquares == { Sq(5, 0), Sq(5, 4), Sq(5, 8), Sq(0, 1), Sq(4, 1), Sq(9, 1) }

\* The fillings of the squares of a line with at most MaxLinePieces horses.
LineFillings(squares) ==
    { f \in [squares -> {0, RED + P_HORSE, BLACK + P_HORSE}] :
        Cardinality({ sq \in squares : f[sq] # 0 }) <= MaxLinePieces }

CannonTablesOn(line, from) ==
    { TableOf(Sq(9, 4), Sq(0, 3),
              { << from, side + P_CANNON >> }
                \cup { << sq, f[sq] >> : sq \in { x \in line \ { from } : f[x] # 0 } }) :
        side \in {RED, BLACK}, f \in LineFillings(line \ { from }) }

CannonTables ==
    UNION { UNION { CannonTablesOn(line, from) : from \in line \cap CannonSquares } :
              line \in CannonLines }

NextCannon ==
    \/ LoadBoard(CannonTables)
    \/ GenerateMoves

SpecCannon == InitGen /\ [][NextCannon]_vars

\* The squares a cannon of the side to move emits moves to from the square
\* from, in the probe's list.
CannonTargets(from) ==
    { MoveTo(m) : m \in { x \in SeqToSet(probe.moves) : MoveFrom(x) = from } }

\* to lies on the row or the file of from.
OnLineOf(from, to) ==
    to # from /\ (RowOf(to) = RowOf(from) \/ ColOf(to) = ColOf(from))

\* C27: for a cannon and each orthogonal direction generateMoves emits quiet
\* moves exactly to the empty squares before the first piece met and, as the
\* only capture, the first piece beyond that screen if it is an enemy: no
\* empty square behind the screen, no capture without a screen, no capture
\* past a second piece.
C27_CannonMoves ==
    probe.op = "generateMoves"
      => \A from \in { sq \in AllSquares : board[sq] = turn + P_CANNON } :
            \A to \in AllSquares :
               to \in CannonTargets(from)
                 <=> /\ OnLineOf(from, to)
                     /\ IF board[to] = 0
                        THEN ~probe.captureOnly /\ PiecesBetween(board, from, to) = 0
                        ELSE /\ ColorOf(board[to]) = Opp(turn)
                             /\ PiecesBetween(board, from, to) = 1

\* The moves of a cannon with a screen, an enemy piece behind it and a
\* further enemy piece behind that one have been generated.
C27_CannonFacingThree ==
    /\ probe.op = "generateMoves"
    /\ ~probe.captureOnly
    /\ board[Sq(5, 4)] = turn + P_CANNON
    /\ \E screen, near, far \in 5 .. 8 :
          /\ screen < near /\ near < far
          /\ board[Sq(5, screen)] # 0
          /\ board[Sq(5, near)] = Opp(turn) + P_HORSE
          /\ board[Sq(5, far)] = Opp(turn) + P_HORSE
          /\ PiecesBetween(board, Sq(5, 4), Sq(5, far)) = 2
          /\ Sq(5, near) \in CannonTargets(Sq(5, 4))
          /\ Sq(5, far) \notin CannonTargets(Sq(5, 4))

(* ------------------------------------------------------------------ *)
(* The transposition table in search                                   *)
(* ------------------------------------------------------------------ *)
\* search ends with tt.set: its move loop is over with a legal move
\* searched, or the move just searched has cut it off.
SearchStores ==
    /\ frames # << >>
    /\ Top.fn = "search"
    /\ Top.pc \in {"loop", "child"}
    /\ Top.pc = "loop" => Top.legalMoves > 0
    /\ ~abort
    /\ Len(frames') = Len(frames) - 1

\* The moves searched by the call that ends, with their scores.
ScoredAtEnd ==
    Top.scored \cup (IF Top.pc = "child" THEN { << Top.move, -ret >> } ELSE {})

\* The entry the call that ends leaves under its hash: its score is the best
\* score of the node, its bound matches the window the node was entered
\* with, and its move is a move that got that score.
StoredEntryMatches ==
    LET e == ttGet(tt', Top.hash)
    IN /\ e.present
       /\ e.score = ret'
       /\ \A p \in ScoredAtEnd : p[2] <= e.score
       /\ e.type = 2 <=> e.score <= Top.originalAlpha
       /\ e.type = 1 <=> e.score >= Top.beta
       /\ e.type = 0 <=> (Top.originalAlpha < e.score /\ e.score < Top.beta)
       /\ << e.move, e.score >> \in ScoredAtEnd

SearchHead ==
    /\ frames # << >>
    /\ Top.fn = "search"
    /\ Top.pc = "enter"
    /\ frames' # frames
    /\ ~abort'

\* The entry under the hash of the position admits the score for the call
\* on top: deep enough, the side to move not in check, the bound on the
\* right side of the window.
EntryAdmitted ==
    LET e == ttGet(tt, getHash(Pos))
    IN /\ e.present
       /\ e.depth >= Top.depth
       /\ ~isKingInCheck(board, redKingPos, blackKingPos, turn)
       /\ \/ e.type = 0
          \/ e.type = 1 /\ e.score >= Top.beta
          \/ e.type = 2 /\ e.score <= Top.alpha

\* C29: search returns the score of a table entry without searching the
\* node only when the entry's depth is at least the requested depth, the
\* side to move is not in check and the bound admits it; in every other case
\* the node is searched (the entry serves move ordering only).
C29_TTCutoffOnlyWhenAdmitted ==
    [][SearchHead
         => IF EntryAdmitted
            THEN /\ Len(frames') = Len(frames) - 1
                 /\ ret' = ttGet(tt, getHash(Pos)).score
            ELSE Len(frames') >= Len(frames)]_vars

\* The root call of the first iteration of a query has returned the score
\* of an entry left by an earlier query, after the one node it counted.
C29_RootCutoff ==
    /\ InQuery
    /\ frames = << >>
    /\ nodes = 1
    /\ ~abort
    /\ LET e == ttGet(tt, getHash(Pos))
       IN /\ e.present
          /\ e.depth >= 1
          /\ ret = e.score

(* ------------------------------------------------------------------ *)
(* The null move                                                       *)
(* ------------------------------------------------------------------ *)
\* search passes the turn and calls the null-move search.
NullMoveMade ==
    /\ frames # << >>
    /\ Len(frames') = Len(frames) + 1
    /\ frames'[Len(frames)].pc = "null"

\* The null-move search has returned to the call that made it.
NullMoveReturned ==
    /\ frames # << >>
    /\ Top.pc = "null"
    /\ frames' # frames

\* The side to move at ply p of the search of the running query.
SideAtPly(p) == IF p % 2 = 0 THEN query.root.turn ELSE Opp(query.root.turn)

LmrRoot ==
    { << Sq(9, 4), RED + P_KING >>, << Sq(0, 3), BLACK + P_KING >>,
      << Sq(7, 0), RED + P_ROOK >>, << Sq(1, 2), RED + P_ROOK >>,
      << Sq(6, 0), BLACK + P_ROOK >>, << Sq(3, 0), BLACK + P_ROOK >> }

\* One query of getBestMoveWorld on the rook ending.
NextLmr ==
    \/ query.n = 0 /\ BeginQuery("getBestMoveWorld", { LmrRoot }, {"Beginner"})
    \/ SearchEnter
    \/ SearchNullReturn
    \/ SearchLoop
    \/ SearchMade
    \/ SearchChildReturn
    \/ QuiesEnter
    \/ QuiesLoop
    \/ QuiesMade
    \/ QuiesChildReturn
    \/ IterationReturn
    \/ FinishQuery

SpecLmr == InitGen /\ [][NextLmr]_vars

(* ------------------------------------------------------------------ *)
(* Late-move reduction and check extension                             *)
(* ------------------------------------------------------------------ *)
\* The move loop calls the search of the move just made.
MoveSearchStarts ==
    /\ frames # << >>
    /\ Top.fn = "search"
    /\ Top.pc = "made"
    /\ Len(frames') = Len(frames) + 1

\* The search of a move at reduced depth has returned above alpha.
ReducedSearchFailedHigh ==
    /\ frames # << >>
    /\ Top.fn = "search"
    /\ Top.pc = "child"
    /\ Top.stage = "zw"
    /\ Top.reduction > 0
    /\ -ret > Top.alpha

\* C31: a late-move reduction is applied only to a move that is not first
\* in the list, at depth >= 3, after more than 4 legal moves have been
\* counted, when the move captures nothing and the side to move was not in
\* check; when a reduced search returns a score > alpha the move is searched
\* again at depth - 1 before its score raises alpha, becomes bestScore or
\* causes a cutoff.
C31_LateMoveReduction ==
    [][/\ (MoveSearchStarts /\ frames'[Len(frames')].depth < Top.depth - 1)
            => LET before == undoMove(zseed, Pos, Top.move, Top.captured)
               IN /\ frames'[Len(frames')].depth = Top.depth - 2
                  /\ Top.i > 1
                  /\ Top.depth >= 3
                  /\ frames'[Len(frames)].legalMoves > 4
                  /\ Read(before.board, MoveTo(Top.move)) = 0
                  /\ ~isKingInCheck(before.board, before.redKingPos,
                                    before.blackKingPos, before.turn)
       /\ ReducedSearchFailedHigh
            => /\ Len(frames') = Len(frames) + 1
               /\ frames'[Len(frames')].depth = Top.depth - 1
               /\ frames'[Len(frames)].alpha = Top.alpha
               /\ frames'[Len(frames)].bestScore = Top.bestScore
               /\ frames'[Len(frames)].bestMove = Top.bestMove
               /\ frames'[Len(frames)].move = Top.move
               /\ Pos' = Pos
               /\ tt' = tt /\ killers' = killers /\ historyTable' = historyTable]_vars

\* A move searched at reduced depth came back above alpha and is being
\* searched again at depth - 1.
C31_ReducedMoveSearchedAgain ==
    /\ Len(frames) >= 2
    /\ ~abort
    /\ frames[Len(frames) - 1].stage = "zw2"
    /\ frames[Len(frames) - 1].reduction = 1
    /\ frames[Len(frames) - 1].legalMoves > 4
    /\ Top.pc = "enter"
    /\ Top.depth = frames[Len(frames) - 1].depth - 1

\* isKingInCheck(this.turn) on the position the engine holds.
SideInCheck == isKingInCheck(board, redKingPos, blackKingPos, turn)

\* search passes its node on to quiescence.
SearchCallsQuiescence ==
    /\ frames # << >>
    /\ Top.fn = "search"
    /\ Top.pc = "enter"
    /\ Len(frames') = Len(frames)
    /\ frames'[Len(frames)].fn = "quiescence"

\* search goes past its head, without an abort, at depth <= 0 with the side
\* to move in check.
HeadInCheckAtHorizon ==
    /\ frames # << >>
    /\ Top.fn = "search"
    /\ Top.pc = "enter"
    /\ Top.depth <= 0
    /\ SideInCheck
    /\ ~abort'
    /\ nodes' = nodes + 1

\* C32: search never hands a node to quiescence while the side to move is in
\* check; at depth <= 0 a node whose side to move is in check goes on as a
\* depth-1 node with all its moves generated, and only nodes not in check at
\* depth <= 0 are evaluated by quiescence.
C32_NoQuiescenceInCheck ==
    [][/\ SearchCallsQuiescence => (~SideInCheck /\ Top.depth <= 0)
       /\ HeadInCheckAtHorizon
            => /\ Len(frames') = Len(frames)
               /\ frames'[Len(frames)].fn = "search"
               /\ frames'[Len(frames)].pc = "loop"
               /\ frames'[Len(frames)].depth = 1
               /\ SeqToSet(frames'[Len(frames)].moves) = SeqToSet(generateMoves(board, turn, FALSE))
               /\ Pos' = Pos]_vars

(* ------------------------------------------------------------------ *)
(* Aspiration windows of the deepening loop                            *)
(* ------------------------------------------------------------------ *)
\* A root search of the deepening loop has returned.
RootSearchReturned ==
    /\ frames = << >>
    /\ query.pc \in {"search", "research"}

\* The loop records the score of the root search that has just returned.
ScoreRecorded == Len(query'.recorded) > Len(query.recorded)

\* The loop goes on to its next depth.
NextIterationStarts == query'.d = query.d + 1

\* A root score outside the window of its search is not recorded, and the
\* same depth is searched again with the full window.
MissedWindowSearchedAgain ==
    [][(RootSearchReturned /\ query.pc = "search" /\ (ret <= query.alpha \/ ret >= query.beta))
           => /\ query'.recorded = query.recorded
              /\ query'.bestScore = query.bestScore
              /\ query'.bestMoveVal = query.bestMoveVal
              /\ query'.d = query.d
              /\ query'.pc = "research"
              /\ frames' = << SearchFrame(query.d, -30000, 30000, 0, FALSE) >>]_vars

\* A recorded score lies strictly inside the window of the root search that
\* returned it.
RecordedInsideWindow ==
    [][(RootSearchReturned /\ ScoreRecorded)
           => /\ query.alpha < ret
              /\ ret < query.beta
              /\ query'.recorded[Len(query'.recorded)].score = ret]_vars

\* The next iteration starts with the window of 50 around the final score of
\* the iteration before it.
NextWindowAroundScore ==
    [][(RootSearchReturned /\ NextIterationStarts)
           => /\ frames' # << >>
              /\ frames'[1].depth = query.d + 1
              /\ frames'[1].alpha = ret - 50
              /\ frames'[1].beta = ret + 50]_vars

\* C33: a root score outside the aspiration window is never recorded, the
\* same depth being searched again with the full window; every recorded
\* score lies strictly inside the window of the root search that produced
\* it; and the iteration after one with final score s starts with the window
\* [s - 50, s + 50].
C33_AspirationWindows ==
    /\ MissedWindowSearchedAgain
    /\ RecordedInsideWindow
    /\ NextWindowAroundScore

(* ------------------------------------------------------------------ *)
(* Move ordering, killers and history                                  *)
(* ------------------------------------------------------------------ *)
\* The rank of a move in the order of priority: the move of the
\* transposition-table entry, a capture, killer slot 0, killer slot 1, any
\* other quiet move.
PriorityClass(b, move, ttEntry, ks) ==
    IF ttEntry.present /\ ttEntry.move = move THEN 5
    ELSE IF Read(b, MoveTo(move)) # 0 THEN 4
    ELSE IF ks[1] = move THEN 3
    ELSE IF ks[2] = move THEN 2
    ELSE 1

\* m1 may stand before m2 in a list in priority order.
MayPrecede(b, m1, m2, ttEntry, ks, hist) ==
    LET c1 == PriorityClass(b, m1, ttEntry, ks)
        c2 == PriorityClass(b, m2, ttEntry, ks)
    IN \/ c1 > c2
       \/ /\ c1 = c2
          /\ c1 = 4 => mvvLva(Read(b, MoveTo(m1)), Read(b, MoveFrom(m1)))
                          >= mvvLva(Read(b, MoveTo(m2)), Read(b, MoveFrom(m2)))
          /\ c1 = 1 => HistoryGet(hist, m1) >= HistoryGet(hist, m2)

PriorityOrder(b, ms, ttEntry, ks, hist) ==
    \A i \in 1 .. Len(ms) : \A j \in (i + 1) .. Len(ms) :
        MayPrecede(b, ms[i], ms[j], ttEntry, ks, hist)

\* EngineWorld.search has just ordered the moves of its node.
MovesJustOrdered ==
    /\ World
    /\ frames # << >>
    /\ Top.fn = "search"
    /\ Top.pc = "loop"
    /\ Top.i = 1

\* C34: after orderMoves the list is in priority order: the move of the
\* transposition-table entry first, then the captures by MVV-LVA, then
\* killer slot 0, then killer slot 1, then the other quiet moves by
\* non-increasing history value.
C34_OrderMovesPriority ==
    MovesJustOrdered
        => PriorityOrder(board, Top.moves, Top.ttEntry, KillersAt(Top.ply), historyTable)

\* The move in hand causes a beta cutoff in the move loop of search.
BetaCutoff ==
    /\ frames # << >>
    /\ Top.fn = "search"
    /\ Top.pc = "child"
    /\ ~abort
    /\ Len(frames') < Len(frames)
    /\ (IF -ret > Top.alpha THEN -ret ELSE Top.alpha) >= Top.beta

\* Plies beyond the killer table.
DeepPlies == MAX_PLY .. (MAX_PLY + MaxPly)

HistoryIndices == 0 .. (BOARD_SIZE * BOARD_SIZE - 1)

\* The history table changes in one entry at most, that of the quiet move
\* that causes a beta cutoff, which grows by the square of the node's depth.
HistoryGrowsOnQuietCutoff ==
    [][/\ historyTable' # historyTable
            => \/ BetaCutoff /\ Top.captured = 0
               \/ ResetStep /\ historyTable' = << >>
       /\ (BetaCutoff /\ Top.captured = 0)
            => /\ HistoryGet(historyTable', Top.move)
                     = HistoryGet(historyTable, Top.move) + Top.depth * Top.depth
               /\ \A m \in (DOMAIN historyTable \cup DOMAIN historyTable') \ { Top.move } :
                     HistoryGet(historyTable', m) = HistoryGet(historyTable, m)
       /\ (BetaCutoff /\ Top.captured # 0) => historyTable' = historyTable
       /\ ~ResetStep
            => \A m \in DOMAIN historyTable :
                  HistoryGet(historyTable', m) >= HistoryGet(historyTable, m)]_vars

\* Every move of the list of a search node is an index of the history table.
GeneratedMovesIndexHistory ==
    \A n \in 1 .. Len(frames) :
        frames[n].fn = "search"
            => \A k \in 1 .. Len(frames[n].moves) : frames[n].moves[k] \in HistoryIndices

\* C36: a history entry changes only when its move, a non-capture, causes a
\* beta cutoff, and then grows by the square of the depth of that node;
\* captures never change the table, every generated move is an index of the
\* 65536 entries, and between resets no entry decreases.
C36_HistoryTable ==
    /\ HistoryGrowsOnQuietCutoff
    /\ []GeneratedMovesIndexHistory

(* ------------------------------------------------------------------ *)
(* Mate scores and the position across calls                           *)
(* ------------------------------------------------------------------ *)
\* The generated moves of the side to move at P that obey the rules of the
\* game and leave that side's king out of check.
RuleMoves(P) ==
    { m \in SeqToSet(generateMoves(P.board, P.turn, FALSE)) :
        SoundMove(P.board, P.turn, m) /\ PassesFilter(P, m) }

\* Each king stands in its palace, where the engine tracks it.
KingsInPalaces(P) ==
    /\ OwnPalace(RED, P.redKingPos)
    /\ OwnPalace(BLACK, P.blackKingPos)
    /\ P.board[P.redKingPos] = RED + P_KING
    /\ P.board[P.blackKingPos] = BLACK + P_KING

\* A call of search that reached its move loop returns without an abort.
LoopReturns ==
    /\ frames # << >>
    /\ Top.fn = "search"
    /\ Top.pc \in {"loop", "child"}
    /\ ~abort
    /\ Len(frames') = Len(frames) - 1

\* A node whose side to move has no legal move returns -20000 + ply in
\* check and 0 otherwise, and stores nothing.
NoLegalMoveScored ==
    [][(LoopReturns /\ KingsInPalaces(Pos') /\ RuleMoves(Pos') = {})
           => /\ ret' = IF isKingInCheck(board', redKingPos', blackKingPos', turn')
                        THEN -20000 + Top.ply ELSE 0
              /\ tt' = tt]_vars

\* A query on a root with a mate in one, not aborted, scores it above every
\* mate delivered in three plies or more.
ShortestMatePreferred ==
    (/\ query.pc = "done"
     /\ ~abort
     /\ MatingMoves(BoardState(query.root.board), query.root.turn) # {})
    => query.result.score > 20000 - 3

\* C37: a search node at ply p whose side to move has no legal move returns
\* -20000 + p when that side is in check and 0 otherwise, and stores nothing
\* in the transposition table; hence at the root a mate delivered in fewer
\* plies scores strictly higher for the mating side than one delivered in
\* more plies.
C37_MateScores ==
    /\ NoLegalMoveScored
    /\ []ShortestMatePreferred

\* The position at the entry of the call of frame k: the position loadBoard
\* installed for the root call, else the position of the caller after the
\* move (or the null move) it made before the call.
RECURSIVE EntryPos(_)
EntryPos(k) ==
    IF k <= 1 THEN query.root
    ELSE IF frames[k - 1].pc = "null" THEN switchSide(zseed, EntryPos(k - 1))
    ELSE makeMove(zseed, EntryPos(k - 1), frames[k - 1].move).pos

\* The running call of search or quiescence returns.
CallReturns ==
    /\ frames # << >>
    /\ Len(frames') = Len(frames) - 1

\* C38: on every return path of search and quiescence, board, redKingPos,
\* blackKingPos, turn and currentHash equal their values at the entry of
\* that call; hence when getBestMoveWorld returns, the engine holds exactly
\* the position that loadBoard installed.
C38_PositionRestored ==
    /\ []((frames # << >> /\ Top.pc = "enter") => Pos = EntryPos(Len(frames)))
    /\ [][CallReturns => Pos' = EntryPos(Len(frames))]_vars
    /\ [][(query.pc # "done" /\ query'.pc = "done") => Pos' = query.root]_vars

\* A query that the deadline aborted has returned, with the calls of three
\* levels and more unwound.
C38_AbortedQueryReturned ==
    /\ query.pc = "done"
    /\ abort
    /\ query.lateAt # 0
    /\ query.d >= 3
    /\ frames = << >>
    /\ Pos = query.root

(* ------------------------------------------------------------------ *)
(* The AI callback against the actions of the user                     *)
(* ------------------------------------------------------------------ *)
\* The AI callback applies the move of its result.
AiApplies ==
    /\ app.flight # << >>
    /\ app'.flight = << >>
    /\ app'.last = "aiMove"

\* C39: whatever the user does while an AI computation is pending or in
\* flight, the result is applied only to the board and turn it was computed
\* for: the board and the turn are those of the render the computation
\* started from and the turn is the AI's, the callback pushes one snapshot,
\* that of the state it is applied to, and no two AI moves follow each other
\* without a move of the player between them.
C39_AiAppliesToItsBoard ==
    [][AiApplies
          => LET f == app.flight[1]
                 n == Len(app'.pushedBy)
             IN /\ f.render.board = app.board
                /\ f.render.turn = app.turn
                /\ f.aiSide = app.turn
                /\ f.aiSide = Opp(app.playerSide)
                /\ app'.historyStack = Append(app.historyStack, Snapshot(app))
                /\ n >= 2 => app'.pushedBy[n - 1] # "ai"]_vars

====
